---- MODULE Spec2Model ----
(***************************************************************************)
(* Model of the markdown-i18n toolkit: the unified-diff parser and hunk    *)
(* classifier, the markdown section segmenter (git-diff-sync), and the     *)
(* structural validator (validate.js).                                     *)
(*                                                                         *)
(* Text is a sequence of characters, each character a one-character        *)
(* string.  The backtick cannot be written in a TLA+ string, so the        *)
(* character "`" is written BT.                                            *)
(***************************************************************************)
EXTENDS Integers, Sequences, FiniteSets, TLC

VARIABLES
    pc,            \* position of the running script: "start" or "done"
    diffOutput,    \* parseGitDiffDetailed: the diff text
    hunks,         \* parseGitDiffDetailed: the returned hunks
    hunk,          \* analyzeHunkOperation: the hunk given
    analyzed,      \* analyzeHunkOperation: the returned hunk
    content,       \* parseMarkdownSections: the document text
    sections,      \* parseMarkdownSections: the returned sections
    source,        \* validatePair: source text
    target,        \* validatePair: target text
    sourceLocale,  \* validatePair: source locale or Undefined
    targetLocale,  \* validatePair: target locale or Undefined
    result,        \* validatePair: the ValidationResult
    sourceFiles,   \* validateDirectories: relPath -> text of the source dir
    targetFiles,   \* validateDirectories: relPath -> text of the target dir
    sourceDir,     \* validate.js --dir: the source directory path
    targetDir,     \* validate.js --dir: the target directory path
    todo,          \* validateDirectories: source files still to visit
    results,       \* validateDirectories: the entries of results, in order
    exitCode,      \* validate.js --dir: the exit status, -1 while running
    planFiles,     \* createSyncPlan: the file entries collected so far
    summary,       \* createSyncPlan: the counters new, deleted, modified, ...
    plan,          \* the plan file: Null while there is none
    affected,      \* findAffectedSections: the returned list
    calls,         \* update-plan.js: the number of runs so far
    call,          \* update-plan.js: the arguments of the last run, or Null
    outcome,       \* update-plan.js: how the last run ended
    repo,          \* git-diff-sync: what git and the file system answer
    error,         \* git-diff-sync: the error main reports, Null if none
    oldContent,    \* compareSections: the old document
    newContent,    \* compareSections: the new document
    compared       \* compareSections: the returned lists, Null before

vars == <<pc, diffOutput, hunks, hunk, analyzed, content, sections,
          source, target, sourceLocale, targetLocale, result,
          sourceFiles, targetFiles, sourceDir, targetDir, todo, results,
          exitCode, planFiles, summary, plan, affected,
          calls, call, outcome, repo, error,
          oldContent, newContent, compared>>

diffVars == <<diffOutput, hunks>>
hunkVars == <<hunk, analyzed>>
secVars  == <<content, sections>>
valVars  == <<source, target, sourceLocale, targetLocale, result>>
dirVars  == <<sourceFiles, targetFiles, sourceDir, targetDir, todo, results,
             exitCode>>
syncVars == <<planFiles, summary>>
planVars == <<plan>>
\* The variables of the scripts other than validate.js and the diff and
\* section parsers.
affVars  == <<affected>>
updVars  == <<calls, call, outcome>>
gitVars  == <<repo, error>>
cmpVars  == <<oldContent, newContent, compared>>
otherVars == <<syncVars, planVars, affVars, updVars, gitVars, cmpVars>>

(***************************************************************************)
(* Bounds of the model.                                                    *)
(***************************************************************************)
MaxDiffLines == 3
MaxHunkLines == 2
MaxDocLines  == 4
MaxDocParts  == 2
MaxCodeBlocks == 2
MaxLinks == 2
MaxAffHunks == 2
MaxUpdates == 2
MaxCmpLines == 3

(***************************************************************************)
(* JavaScript values and string primitives.                                *)
(***************************************************************************)
\* null, for a variable that otherwise holds an object (a record).
Null == [null |-> TRUE]
\* An optional regex group that did not take part in the match (undefined),
\* and a locale that was not given (null): both are falsy, like the empty
\* string, and are written as the empty text.
Undefined == <<>>
BT == "BACKTICK"

LineTerminators == {"\n", "\r"}
WhiteSpace == {" ", "\t", "\n", "\r", "\f"}
Digits == {"0", "1", "2", "3", "4", "5", "6", "7", "8", "9"}
LowerCase == {"a", "b", "c", "d", "e", "f", "g", "h", "i", "j", "k", "l", "m",
              "n", "o", "p", "q", "r", "s", "t", "u", "v", "w", "x", "y", "z"}
UpperCase == {"A", "B", "C", "D", "E", "F", "G", "H", "I", "J", "K", "L", "M",
              "N", "O", "P", "Q", "R", "S", "T", "U", "V", "W", "X", "Y", "Z"}
WordChars == LowerCase \cup UpperCase \cup Digits \cup {"_"}

DigitValue(c) ==
    CASE c = "0" -> 0 [] c = "1" -> 1 [] c = "2" -> 2 [] c = "3" -> 3
      [] c = "4" -> 4 [] c = "5" -> 5 [] c = "6" -> 6 [] c = "7" -> 7
      [] c = "8" -> 8 [] c = "9" -> 9

Min(a, b) == IF a < b THEN a ELSE b
Max(a, b) == IF a > b THEN a ELSE b

\* s.substring(from) with from counted from 0: the characters after the
\* first `from` ones.
Substring(s, from) == SubSeq(s, from + 1, Len(s))

\* s.startsWith(prefix, at) with at counted from 1.
StartsWithAt(s, prefix, at) ==
    /\ at + Len(prefix) - 1 <= Len(s)
    /\ \A k \in 1..Len(prefix) : s[at + k - 1] = prefix[k]

StartsWith(s, prefix) == StartsWithAt(s, prefix, 1)

\* s.endsWith(suffix)
EndsWith(s, suffix) ==
    /\ Len(suffix) <= Len(s)
    /\ \A k \in 1..Len(suffix) : s[Len(s) - Len(suffix) + k] = suffix[k]

\* s.indexOf(sub, from): the first position >= from (from 1) where sub
\* starts, 0 when there is none.
RECURSIVE IndexOfFrom(_, _, _)
IndexOfFrom(s, sub, from) ==
    IF from + Len(sub) - 1 > Len(s) THEN 0
    ELSE IF StartsWithAt(s, sub, from) THEN from
    ELSE IndexOfFrom(s, sub, from + 1)

\* s.trim()
RECURSIVE TrimStart(_)
TrimStart(s) ==
    IF s # <<>> /\ Head(s) \in WhiteSpace THEN TrimStart(Tail(s)) ELSE s

RECURSIVE TrimEnd(_)
TrimEnd(s) ==
    IF s # <<>> /\ s[Len(s)] \in WhiteSpace
    THEN TrimEnd(SubSeq(s, 1, Len(s) - 1)) ELSE s

Trim(s) == TrimEnd(TrimStart(s))

\* s.split('\n'): always at least one piece.
RECURSIVE SplitFrom(_, _, _)
SplitFrom(s, sep, from) ==
    LET at == IndexOfFrom(s, <<sep>>, from)
    IN  IF at = 0 THEN <<SubSeq(s, from, Len(s))>>
        ELSE <<SubSeq(s, from, at - 1)>> \o SplitFrom(s, sep, at + 1)

Split(s, sep) == SplitFrom(s, sep, 1)

\* pieces.join('\n')
RECURSIVE Join(_, _)
Join(pieces, sep) ==
    IF pieces = <<>> THEN <<>>
    ELSE IF Len(pieces) = 1 THEN pieces[1]
    ELSE pieces[1] \o <<sep>> \o Join(Tail(pieces), sep)

\* parseInt(digits, 10) of a non-empty run of decimal digits.
RECURSIVE ParseInt(_)
ParseInt(ds) ==
    IF ds = <<>> THEN 0
    ELSE 10 * ParseInt(SubSeq(ds, 1, Len(ds) - 1)) + DigitValue(ds[Len(ds)])

\* The end (exclusive) of the longest run of characters of `set` that
\* starts at position `at`.
RECURSIVE RunEnd(_, _, _)
RunEnd(s, set, at) ==
    IF at <= Len(s) /\ s[at] \in set THEN RunEnd(s, set, at + 1) ELSE at

\* The same for the characters that are not in `set`.
RECURSIVE RunEndNot(_, _, _)
RunEndNot(s, set, at) ==
    IF at <= Len(s) /\ s[at] \notin set THEN RunEndNot(s, set, at + 1) ELSE at

\* The tail \s+(.+)$ of the heading and list-item patterns, tried at
\* position q of text s.  \s+ is greedy and gives characters back until
\* (.+), which takes no line terminator, matches at least one character
\* and $ holds after it: at the end of the text, or also before a line
\* terminator under the m flag.  The result is [from, to], the span of
\* group (.+), or Null.
TailMatches(s, q, w, multiline) ==
    LET from == q + w
        to == RunEndNot(s, LineTerminators, from)
    IN  /\ from <= Len(s)
        /\ to > from
        /\ (to = Len(s) + 1 \/ multiline)

SpaceThenText(s, q, multiline) ==
    LET r == RunEnd(s, WhiteSpace, q)
        widths == {w \in 1..(r - q) : TailMatches(s, q, w, multiline)}
    IN  IF widths = {} THEN Null
        ELSE LET w == CHOOSE x \in widths : \A y \in widths : y <= x
             IN  [from |-> q + w, to |-> RunEndNot(s, LineTerminators, q + w) - 1]

\* /^(#{1,6})\s+(.+)$/ tried at position p of text s (p is a place where ^
\* holds): [hashes, text, end] or Null.  #{1,6} is greedy; with fewer
\* hashes the next character is a hash, which \s does not take.
HeadingMatchAt(s, p, multiline) ==
    LET h == RunEnd(s, {"#"}, p)
        tail == SpaceThenText(s, h, multiline)
    IN  IF h - p >= 1 /\ h - p <= 6 /\ tail # Null
        THEN [hashes |-> SubSeq(s, p, h - 1),
              text |-> SubSeq(s, tail.from, tail.to),
              end |-> tail.to]
        ELSE Null

\* All sequences over S of length at most n.
RECURSIVE SeqsUpTo(_, _)
SeqsUpTo(S, n) ==
    IF n = 0 THEN {<<>>}
    ELSE LET shorter == SeqsUpTo(S, n - 1)
         IN  shorter \cup {Append(q, e) : q \in shorter, e \in S}

(***************************************************************************)
(* update-plan.js (git-diff-sync part): checkWhitespaceOnlyChanges and     *)
(* analyzeHunkOperation.                                                   *)
(***************************************************************************)
\* Mutant: the lines are compared without trimming.
checkWhitespaceOnlyChanges_NoTrim(h) ==
    IF Len(h.deleted_lines) # Len(h.added_lines) THEN FALSE
    ELSE \A i \in 1..Len(h.deleted_lines) : h.deleted_lines[i] = h.added_lines[i]

checkWhitespaceOnlyChanges(h) ==
    IF Len(h.deleted_lines) # Len(h.added_lines) THEN FALSE
    ELSE \A i \in 1..Len(h.deleted_lines) :
            Trim(h.deleted_lines[i]) = Trim(h.added_lines[i])

\* Mutant: the tests for add and delete are exchanged.
HunkOperation_Swapped(h) ==
    LET hasDeleted == Len(h.deleted_lines) > 0
        hasAdded == Len(h.added_lines) > 0
    IN  IF hasDeleted /\ ~hasAdded THEN "add"
        ELSE IF ~hasDeleted /\ hasAdded THEN "delete"
        ELSE IF checkWhitespaceOnlyChanges(h) THEN "format"
        ELSE "modify"

HunkOperation(h) ==
    LET hasDeleted == Len(h.deleted_lines) > 0
        hasAdded == Len(h.added_lines) > 0
        hasOnlyWhitespaceChanges == checkWhitespaceOnlyChanges(h)
    IN  IF ~hasDeleted /\ hasAdded THEN "add"
        ELSE IF hasDeleted /\ ~hasAdded THEN "delete"
        ELSE IF hasOnlyWhitespaceChanges THEN "format"
        ELSE IF hasDeleted /\ hasAdded THEN "modify"
        ELSE "modify"

HunkDescription(h) ==
    LET hasDeleted == Len(h.deleted_lines) > 0
        hasAdded == Len(h.added_lines) > 0
        hasOnlyWhitespaceChanges == checkWhitespaceOnlyChanges(h)
    IN  IF ~hasDeleted /\ hasAdded
        THEN [text |-> "Add n line(s)", deleted |-> 0, added |-> Len(h.added_lines)]
        ELSE IF hasDeleted /\ ~hasAdded
        THEN [text |-> "Delete n line(s)", deleted |-> Len(h.deleted_lines), added |-> 0]
        ELSE IF hasOnlyWhitespaceChanges
        THEN [text |-> "Format/whitespace change", deleted |-> 0, added |-> 0]
        ELSE IF hasDeleted /\ hasAdded
        THEN [text |-> "Replace d line(s) with a line(s)",
              deleted |-> Len(h.deleted_lines), added |-> Len(h.added_lines)]
        ELSE [text |-> "Content modified", deleted |-> 0, added |-> 0]

analyzeHunkOperation(h) ==
    [old_start |-> h.old_start, old_count |-> h.old_count,
     new_start |-> h.new_start, new_count |-> h.new_count,
     deleted_lines |-> h.deleted_lines, added_lines |-> h.added_lines,
     context_lines |-> h.context_lines, header |-> h.header,
     operation |-> HunkOperation(h),
     description |-> HunkDescription(h),
     line_range |-> <<h.new_start, h.new_start + h.new_count - 1>>]

(***************************************************************************)
(* update-plan.js (git-diff-sync part): parseGitDiffDetailed.              *)
(***************************************************************************)
\* line.match(/^@@ -(\d+)(?:,(\d+))? \+(\d+)(?:,(\d+))? @@/): the four
\* groups, an absent optional group being Undefined; Null when no match.
HunkHeaderMatch(line) ==
    LET n == Len(line)
        s1 == 5
        e1 == RunEnd(line, Digits, s1)
        c1 == e1 <= n /\ line[e1] = "," /\ RunEnd(line, Digits, e1 + 1) > e1 + 1
        e2 == IF c1 THEN RunEnd(line, Digits, e1 + 1) ELSE e1
        s3 == e2 + 2
        e3 == RunEnd(line, Digits, s3)
        c3 == e3 <= n /\ line[e3] = "," /\ RunEnd(line, Digits, e3 + 1) > e3 + 1
        e4 == IF c3 THEN RunEnd(line, Digits, e3 + 1) ELSE e3
    IN  IF /\ StartsWith(line, <<"@", "@", " ", "-">>)
           /\ e1 > s1
           /\ StartsWithAt(line, <<" ", "+">>, e2)
           /\ e3 > s3
           /\ StartsWithAt(line, <<" ", "@", "@">>, e4)
        THEN [g1 |-> SubSeq(line, s1, e1 - 1),
              g2 |-> IF c1 THEN SubSeq(line, e1 + 1, e2 - 1) ELSE Undefined,
              g3 |-> SubSeq(line, s3, e3 - 1),
              g4 |-> IF c3 THEN SubSeq(line, e3 + 1, e4 - 1) ELSE Undefined]
        ELSE Null

IsHunkHeader(line) == HunkHeaderMatch(line) # Null

\* Mutant: a count is tested as a number, so a written 0 counts as absent.
NewHunk_ZeroCountIsOne(line) ==
    LET m == HunkHeaderMatch(line)
    IN  [old_start |-> ParseInt(m.g1),
         old_count |-> IF m.g2 # Undefined /\ ParseInt(m.g2) # 0
                       THEN ParseInt(m.g2) ELSE 1,
         new_start |-> ParseInt(m.g3),
         new_count |-> IF m.g4 # Undefined /\ ParseInt(m.g4) # 0
                       THEN ParseInt(m.g4) ELSE 1,
         deleted_lines |-> <<>>, added_lines |-> <<>>, context_lines |-> <<>>,
         header |-> line]

NewHunk(line) ==
    LET m == HunkHeaderMatch(line)
    IN  [old_start |-> ParseInt(m.g1),
         old_count |-> IF m.g2 # Undefined THEN ParseInt(m.g2) ELSE 1,
         new_start |-> ParseInt(m.g3),
         new_count |-> IF m.g4 # Undefined THEN ParseInt(m.g4) ELSE 1,
         deleted_lines |-> <<>>, added_lines |-> <<>>, context_lines |-> <<>>,
         header |-> line]

NoNewlineMarker ==
    <<"\\", " ", "N", "o", " ", "n", "e", "w", "l", "i", "n", "e", " ", "a", "t",
      " ", "e", "n", "d", " ", "o", "f", " ", "f", "i", "l", "e">>

IsDiffMetadata(line) ==
    \/ StartsWith(line, <<"@", "@">>)
    \/ StartsWith(line, <<"d", "i", "f", "f">>)
    \/ StartsWith(line, <<"i", "n", "d", "e", "x">>)
    \/ StartsWith(line, <<"-", "-", "-">>)
    \/ StartsWith(line, <<"+", "+", "+">>)

\* Mutant: a metadata line ends the hunk without keeping it.
ParseDiffLine_MetadataDropsHunk(st, line) ==
    IF IsHunkHeader(line)
    THEN [hunks |-> IF st.currentHunk # Null /\ st.inHunk
                    THEN Append(st.hunks, st.currentHunk) ELSE st.hunks,
          currentHunk |-> NewHunk(line),
          inHunk |-> TRUE]
    ELSE IF st.inHunk /\ st.currentHunk # Null
    THEN IF StartsWith(line, <<"-">>)
         THEN [st EXCEPT !.currentHunk.deleted_lines = Append(@, Substring(line, 1))]
         ELSE IF StartsWith(line, <<"+">>)
         THEN [st EXCEPT !.currentHunk.added_lines = Append(@, Substring(line, 1))]
         ELSE IF StartsWith(line, <<" ">>)
         THEN [st EXCEPT !.currentHunk.context_lines = Append(@, Substring(line, 1))]
         ELSE IF line = NoNewlineMarker
         THEN st
         ELSE IF IsDiffMetadata(line)
         THEN [hunks |-> st.hunks, currentHunk |-> Null, inHunk |-> FALSE]
         ELSE st
    ELSE st

\* One iteration of the loop over the lines: st is the loop's state
\* [hunks, currentHunk, inHunk].
ParseDiffLine(st, line) ==
    IF IsHunkHeader(line)
    THEN [hunks |-> IF st.currentHunk # Null /\ st.inHunk
                    THEN Append(st.hunks, st.currentHunk) ELSE st.hunks,
          currentHunk |-> NewHunk(line),
          inHunk |-> TRUE]
    ELSE IF st.inHunk /\ st.currentHunk # Null
    THEN IF StartsWith(line, <<"-">>)
         THEN [st EXCEPT !.currentHunk.deleted_lines = Append(@, Substring(line, 1))]
         ELSE IF StartsWith(line, <<"+">>)
         THEN [st EXCEPT !.currentHunk.added_lines = Append(@, Substring(line, 1))]
         ELSE IF StartsWith(line, <<" ">>)
         THEN [st EXCEPT !.currentHunk.context_lines = Append(@, Substring(line, 1))]
         ELSE IF line = NoNewlineMarker
         THEN st
         ELSE IF IsDiffMetadata(line)
         THEN [hunks |-> IF st.currentHunk # Null
                         THEN Append(st.hunks, st.currentHunk) ELSE st.hunks,
               currentHunk |-> Null,
               inHunk |-> FALSE]
         ELSE st
    ELSE st

RECURSIVE ParseDiffLines(_, _, _)
ParseDiffLines(st, lines, i) ==
    IF i > Len(lines) THEN st
    ELSE ParseDiffLines(ParseDiffLine(st, lines[i]), lines, i + 1)

parseGitDiffDetailed(text) ==
    LET lines == Split(text, "\n")
        end == ParseDiffLines([hunks |-> <<>>, currentHunk |-> Null, inHunk |-> FALSE],
                              lines, 1)
        all == IF end.currentHunk # Null /\ end.inHunk
               THEN Append(end.hunks, end.currentHunk) ELSE end.hunks
    IN  [k \in 1..Len(all) |-> analyzeHunkOperation(all[k])]

(***************************************************************************)
(* Values of the variables a script does not use.                          *)
(***************************************************************************)
DiffIdle == diffOutput = <<>> /\ hunks = <<>>
HunkIdle == hunk = Null /\ analyzed = Null
SecIdle  == content = <<>> /\ sections = <<>>
ValIdle  == /\ source = <<>> /\ target = <<>>
            /\ sourceLocale = Undefined /\ targetLocale = Undefined
            /\ result = Null
DirIdle  == /\ sourceFiles = <<>> /\ targetFiles = <<>>
            /\ sourceDir = <<>> /\ targetDir = <<>>
            /\ todo = <<>> /\ results = <<>> /\ exitCode = -1
SyncIdle == planFiles = <<>> /\ summary = Null
PlanIdle == plan = Null
AffIdle  == affected = <<>>
UpdIdle  == calls = 0 /\ call = Null /\ outcome = "none"
GitIdle  == repo = Null /\ error = Null
CmpIdle  == oldContent = <<>> /\ newContent = <<>> /\ compared = Null
OtherIdle == SyncIdle /\ PlanIdle /\ AffIdle /\ UpdIdle /\ GitIdle /\ CmpIdle

(***************************************************************************)
(* Specification SpecDiff: parseGitDiffDetailed applied to a diff text.    *)
(***************************************************************************)
HeaderPlain == <<"@", "@", " ", "-", "1", " ", "+", "1", " ", "@", "@">>
HeaderCounts ==
    <<"@", "@", " ", "-", "2", ",", "3", " ", "+", "4", ",", "0", " ", "@", "@", " ", "f">>
DiffLineSet ==
    { HeaderPlain, HeaderCounts,
      <<"@", "@", " ", "x">>,
      <<"-", "a">>, <<"+", " ", "a">>, <<" ", "c">>,
      <<"d", "i", "f", "f", " ", "x">>, <<"i", "n", "d", "e", "x">>,
      <<"-", "-", "-">>, <<"+", "+", "+">>,
      NoNewlineMarker, <<"x">> }

DiffInputs == {Join(ls, "\n") : ls \in SeqsUpTo(DiffLineSet, MaxDiffLines)}

InitDiff ==
    /\ pc = "start"
    /\ diffOutput \in DiffInputs
    /\ hunks = <<>>
    /\ HunkIdle /\ SecIdle /\ ValIdle /\ DirIdle /\ OtherIdle

ParseGitDiff ==
    /\ pc = "start"
    /\ hunks' = parseGitDiffDetailed(diffOutput)
    /\ pc' = "done"
    /\ UNCHANGED <<diffOutput, hunkVars, secVars, valVars, dirVars, otherVars>>

NextDiff == ParseGitDiff

SpecDiff == InitDiff /\ [][NextDiff]_vars

(***************************************************************************)
(* Specification SpecHunk: analyzeHunkOperation applied to a hunk.         *)
(***************************************************************************)
HunkLineSet ==
    { <<>>, <<"a">>, <<" ", "a">>, <<"a", " ">>, <<"\t", "a">>, <<"b">>, <<" ">> }

HunkInputs ==
    { [old_start |-> 1, old_count |-> Len(d), new_start |-> 1, new_count |-> Len(a),
       deleted_lines |-> d, added_lines |-> a, context_lines |-> <<>>,
       header |-> HeaderPlain] :
      d \in SeqsUpTo(HunkLineSet, MaxHunkLines),
      a \in SeqsUpTo(HunkLineSet, MaxHunkLines) }

InitHunk ==
    /\ pc = "start"
    /\ hunk \in HunkInputs
    /\ analyzed = Null
    /\ DiffIdle /\ SecIdle /\ ValIdle /\ DirIdle /\ OtherIdle

AnalyzeHunk ==
    /\ pc = "start"
    /\ analyzed' = analyzeHunkOperation(hunk)
    /\ pc' = "done"
    /\ UNCHANGED <<hunk, diffVars, secVars, valVars, dirVars, otherVars>>

NextHunk == AnalyzeHunk

SpecHunk == InitHunk /\ [][NextHunk]_vars

(***************************************************************************)
(* Claims about the diff parser and the hunk classifier.                   *)
(***************************************************************************)
\* The lines of a text that have the hunk-header shape, in order.
HeaderLinesOf(text) ==
    SelectSeq(Split(text, "\n"), LAMBDA l : IsHunkHeader(l))

\* C1: a diff text with N lines of the hunk-header shape is parsed into
\* exactly N hunks, the k-th hunk being the one of the k-th header (no hunk
\* for an empty diff).
C1_HunkCount ==
    pc = "done" =>
        /\ Len(hunks) = Len(HeaderLinesOf(diffOutput))
        /\ \A k \in 1..Len(hunks) : hunks[k].header = HeaderLinesOf(diffOutput)[k]

\* C1 witness: two headers, the first hunk closed by a metadata line before
\* the second header, give two hunks.
C1_Witness ==
    /\ pc = "done"
    /\ Len(hunks) = 2
    /\ \E ls \in SeqsUpTo(DiffLineSet, MaxDiffLines) :
          /\ Len(ls) = 3 /\ diffOutput = Join(ls, "\n")
          /\ ls[1] = HeaderPlain
          /\ ls[2] = <<"d", "i", "f", "f", " ", "x">>
          /\ ls[3] = HeaderCounts

Operations == {"add", "delete", "modify", "format"}

\* C2: every hunk gets exactly one operation of {add, delete, modify,
\* format}: add when nothing is deleted and something is added, delete when
\* nothing is added and something is deleted.
C2_Classification ==
    pc = "done" =>
        /\ analyzed.operation \in Operations
        /\ (hunk.deleted_lines = <<>> /\ hunk.added_lines # <<>>)
              => analyzed.operation = "add"
        /\ (hunk.added_lines = <<>> /\ hunk.deleted_lines # <<>>)
              => analyzed.operation = "delete"

\* C2 witness: a hunk with only deleted lines, classified delete.
C2_Witness ==
    /\ pc = "done"
    /\ hunk.added_lines = <<>> /\ Len(hunk.deleted_lines) = 2
    /\ analyzed.operation = "delete"

\* Line for line equal after trimming.
SameTrimmedLines(d, a) ==
    /\ Len(d) = Len(a)
    /\ \A i \in 1..Len(d) : Trim(d[i]) = Trim(a[i])

\* C3: a hunk with deleted and added lines is format exactly when the two
\* lists have the same length and are line for line equal after trimming,
\* and modify in every other such case.
C3_FormatIffTrimmedEqual ==
    (pc = "done" /\ hunk.deleted_lines # <<>> /\ hunk.added_lines # <<>>) =>
        IF SameTrimmedLines(hunk.deleted_lines, hunk.added_lines)
        THEN analyzed.operation = "format"
        ELSE analyzed.operation = "modify"

\* C3 witness: the lines differ only in leading whitespace and the hunk is
\* format.
C3_Witness ==
    /\ pc = "done"
    /\ hunk.deleted_lines = << <<" ", "a">> >>
    /\ hunk.added_lines = << <<"a">> >>
    /\ analyzed.operation = "format"

(***************************************************************************)
(* update-plan.js (git-diff-sync part): parseMarkdownSections.  Line       *)
(* numbers start and end count from 0, as in the code.                     *)
(***************************************************************************)
\* lines.slice(from, to).join('\n') with from, to counted from 0.
SliceJoin(lines, from, to) == Join(SubSeq(lines, from + 1, to), "\n")

\* Mutant: a section closed by a heading ends on the heading's line.
SectionLine_EndAtHeading(st, lines, i) ==
    LET headingMatch == HeadingMatchAt(lines[i + 1], 1, FALSE)
        cur == st.currentSection
    IN  IF headingMatch # Null
        THEN [sections |->
                 IF cur.start < i
                 THEN Append(st.sections,
                             [title |-> cur.title, start |-> cur.start,
                              level |-> cur.level, end |-> i,
                              content |-> Join(SubSeq(lines, cur.start + 1, i), "\n")])
                 ELSE st.sections,
              currentSection |->
                 [title |-> headingMatch.text, start |-> i,
                  level |-> Len(headingMatch.hashes)]]
        ELSE st

\* One iteration of the loop: st is [sections, currentSection], i counts
\* from 0.
SectionLine(st, lines, i) ==
    LET headingMatch == HeadingMatchAt(lines[i + 1], 1, FALSE)
        cur == st.currentSection
    IN  IF headingMatch # Null
        THEN [sections |->
                 IF cur.start < i
                 THEN Append(st.sections,
                             [title |-> cur.title, start |-> cur.start,
                              level |-> cur.level, end |-> i - 1,
                              content |-> SliceJoin(lines, cur.start, i)])
                 ELSE st.sections,
              currentSection |->
                 [title |-> headingMatch.text, start |-> i,
                  level |-> Len(headingMatch.hashes)]]
        ELSE st

RECURSIVE SectionLines(_, _, _)
SectionLines(st, lines, i) ==
    IF i >= Len(lines) THEN st
    ELSE SectionLines(SectionLine(st, lines, i), lines, i + 1)

Untitled == <<"(", "u", "n", "t", "i", "t", "l", "e", "d", ")">>

parseMarkdownSections(text) ==
    LET lines == Split(text, "\n")
        end == SectionLines([sections |-> <<>>,
                             currentSection |->
                                 [title |-> Untitled, start |-> 0, level |-> 0]],
                            lines, 0)
        cur == end.currentSection
    IN  IF cur.start < Len(lines)
        THEN Append(end.sections,
                    [title |-> cur.title, start |-> cur.start, level |-> cur.level,
                     end |-> Len(lines) - 1,
                     content |-> SliceJoin(lines, cur.start, Len(lines))])
        ELSE end.sections

(***************************************************************************)
(* Specification SpecSections: parseMarkdownSections applied to a text.    *)
(***************************************************************************)
DocLineSet ==
    { <<"#", " ", "a">>, <<"#", "#", " ", "b">>, <<"#">>, <<"#", " ", " ">>,
      <<"#", "a">>, <<"#", "#", "#", "#", "#", "#", "#", " ", "x">>,
      <<"t">>, <<>> }

DocInputs == {Join(ls, "\n") : ls \in SeqsUpTo(DocLineSet, MaxDocLines)}

InitSections ==
    /\ pc = "start"
    /\ content \in DocInputs
    /\ sections = <<>>
    /\ DiffIdle /\ HunkIdle /\ ValIdle /\ DirIdle /\ OtherIdle

ParseSections ==
    /\ pc = "start"
    /\ sections' = parseMarkdownSections(content)
    /\ pc' = "done"
    /\ UNCHANGED <<content, diffVars, hunkVars, valVars, dirVars, otherVars>>

NextSections == ParseSections

SpecSections == InitSections /\ [][NextSections]_vars

\* C4: the sections are in document order, their [start, end] ranges cover
\* every line index exactly once (first start 0, each next start the
\* previous end + 1, last end the last line index), and their contents
\* joined with a newline are the document.
C4_SectionPartition ==
    pc = "done" =>
        LET n == Len(Split(content, "\n"))
        IN  /\ sections # <<>>
            /\ sections[1].start = 0
            /\ sections[Len(sections)].end = n - 1
            /\ \A k \in 1..Len(sections) : sections[k].start <= sections[k].end
            /\ \A k \in 1..(Len(sections) - 1) :
                  sections[k + 1].start = sections[k].end + 1
            /\ Join([k \in 1..Len(sections) |-> sections[k].content], "\n") = content

\* C4 witness: an intro section, then two heading sections.
C4_Witness ==
    /\ pc = "done"
    /\ Len(sections) = 3
    /\ sections[1].level = 0 /\ sections[2].level = 1 /\ sections[3].level = 2
    /\ sections[2].start = 1 /\ sections[3].start = 3

(***************************************************************************)
(* validate.js: link extraction and link localization.                     *)
(***************************************************************************)
\* /\[([^\]]+)\]\(([^)]+)\)/ tried at position p: [text, url, end] or Null.
LinkMatchAt(s, p) ==
    LET e1 == RunEndNot(s, {"]"}, p + 1)
        e2 == RunEndNot(s, {")"}, e1 + 2)
    IN  IF /\ p <= Len(s) /\ s[p] = "["
           /\ e1 > p + 1
           /\ StartsWithAt(s, <<"]", "(">>, e1)
           /\ e2 > e1 + 2
           /\ e2 <= Len(s)
        THEN [text |-> SubSeq(s, p + 1, e1 - 1),
              url |-> SubSeq(s, e1 + 2, e2 - 1),
              end |-> e2]
        ELSE Null

\* content.matchAll(...) from position p on: after a match the search goes
\* on behind it, otherwise one character further.
RECURSIVE LinksFrom(_, _)
LinksFrom(s, p) ==
    IF p > Len(s) THEN <<>>
    ELSE LET m == LinkMatchAt(s, p)
         IN  IF m # Null
             THEN <<[text |-> m.text, url |-> m.url]>> \o LinksFrom(s, m.end + 1)
             ELSE LinksFrom(s, p + 1)

extractLinks(text) == LinksFrom(text, 1)

Http == <<"h", "t", "t", "p", ":", "/", "/">>
Https == <<"h", "t", "t", "p", "s", ":", "/", "/">>

isInternalLink(url) ==
    IF ~StartsWith(url, <<"/">>) THEN FALSE
    ELSE IF StartsWith(url, Http) \/ StartsWith(url, Https) THEN FALSE
    ELSE TRUE

isExternalLink(url) == StartsWith(url, Http) \/ StartsWith(url, Https)

\* `/${locale}/`
LocalePrefix(locale) == <<"/">> \o locale \o <<"/">>

\* url.match(/^\/[a-z]{2}\//)
HasTwoLetterPrefix(url) ==
    /\ Len(url) >= 4
    /\ url[1] = "/" /\ url[2] \in LowerCase /\ url[3] \in LowerCase /\ url[4] = "/"

\* Mutant: a target link is only tested for the target-locale prefix, not
\* for the source-locale prefix.
TargetLinkWarnings_NoSourceCheck(url, sourceLinks, srcLocale, tgtLocale) ==
    IF isInternalLink(url)
    THEN IF tgtLocale # Undefined
         THEN LET hasLocalePrefix ==
                      \/ StartsWith(url, LocalePrefix(tgtLocale))
                      \/ StartsWith(url, <<"/">> \o tgtLocale \o <<"?">>)
              IN  IF ~hasLocalePrefix /\ ~HasTwoLetterPrefix(url)
                  THEN <<[kind |-> "Internal link missing locale prefix",
                          url |-> url, expected |-> <<"/">> \o tgtLocale \o url]>>
                  ELSE <<>>
         ELSE <<>>
    ELSE IF isExternalLink(url)
    THEN IF \A k \in 1..Len(sourceLinks) : sourceLinks[k].url # url
         THEN <<[kind |-> "External link in target not in source",
                 url |-> url, expected |-> <<>>]>>
         ELSE <<>>
    ELSE <<>>

\* Mutant: the test for a two-letter prefix lost its negation.
TargetLinkWarnings_PrefixTestInverted(url, sourceLinks, srcLocale, tgtLocale) ==
    IF isInternalLink(url)
    THEN IF tgtLocale # Undefined
         THEN LET hasLocalePrefix ==
                      \/ StartsWith(url, LocalePrefix(tgtLocale))
                      \/ StartsWith(url, <<"/">> \o tgtLocale \o <<"?">>)
              IN  IF srcLocale # Undefined /\ StartsWith(url, LocalePrefix(srcLocale))
                  THEN <<[kind |-> "Link still uses source locale",
                          url |-> url, expected |-> LocalePrefix(tgtLocale)]>>
                  ELSE IF ~hasLocalePrefix /\ HasTwoLetterPrefix(url)
                  THEN <<[kind |-> "Internal link missing locale prefix",
                          url |-> url, expected |-> <<"/">> \o tgtLocale \o url]>>
                  ELSE <<>>
         ELSE <<>>
    ELSE IF isExternalLink(url)
    THEN IF \A k \in 1..Len(sourceLinks) : sourceLinks[k].url # url
         THEN <<[kind |-> "External link in target not in source",
                 url |-> url, expected |-> <<>>]>>
         ELSE <<>>
    ELSE <<>>

\* The warnings of the loop over the target links, for one link.
TargetLinkWarnings(url, sourceLinks, srcLocale, tgtLocale) ==
    IF isInternalLink(url)
    THEN IF tgtLocale # Undefined
         THEN LET hasLocalePrefix ==
                      \/ StartsWith(url, LocalePrefix(tgtLocale))
                      \/ StartsWith(url, <<"/">> \o tgtLocale \o <<"?">>)
              IN  IF srcLocale # Undefined /\ StartsWith(url, LocalePrefix(srcLocale))
                  THEN <<[kind |-> "Link still uses source locale",
                          url |-> url, expected |-> LocalePrefix(tgtLocale)]>>
                  ELSE IF ~hasLocalePrefix /\ ~HasTwoLetterPrefix(url)
                  THEN <<[kind |-> "Internal link missing locale prefix",
                          url |-> url, expected |-> <<"/">> \o tgtLocale \o url]>>
                  ELSE <<>>
         ELSE <<>>
    ELSE IF isExternalLink(url)
    THEN IF \A k \in 1..Len(sourceLinks) : sourceLinks[k].url # url
         THEN <<[kind |-> "External link in target not in source",
                 url |-> url, expected |-> <<>>]>>
         ELSE <<>>
    ELSE <<>>

\* Mutant: a URL without locale prefix is expected unchanged.
ExpectedTargetUrl_NoPrepend(url, srcLocale, tgtLocale) ==
    IF StartsWith(url, LocalePrefix(srcLocale))
    THEN LocalePrefix(tgtLocale) \o Substring(url, Len(LocalePrefix(srcLocale)))
    ELSE url

\* The expected localized URL of a source link.
ExpectedTargetUrl(url, srcLocale, tgtLocale) ==
    IF StartsWith(url, LocalePrefix(srcLocale))
    THEN LocalePrefix(tgtLocale) \o Substring(url, Len(LocalePrefix(srcLocale)))
    ELSE IF ~HasTwoLetterPrefix(url)
    THEN <<"/">> \o tgtLocale \o url
    ELSE url

\* The warnings of the loop over the source links, for one link.
SourceLinkWarnings(url, targetLinks, srcLocale, tgtLocale) ==
    IF isInternalLink(url) /\ srcLocale # Undefined /\ tgtLocale # Undefined
    THEN LET expectedTargetUrl == ExpectedTargetUrl(url, srcLocale, tgtLocale)
             hasLocalized == \E k \in 1..Len(targetLinks) :
                                targetLinks[k].url = expectedTargetUrl
         IN  IF ~hasLocalized
             THEN <<[kind |-> "Missing localized link in target",
                     url |-> url, expected |-> expectedTargetUrl]>>
             ELSE <<>>
    ELSE <<>>

\* The first loop of validateLinkLocalization, from target link i on.
RECURSIVE TargetLinksWarnings(_, _, _, _, _)
TargetLinksWarnings(sourceLinks, targetLinks, srcLocale, tgtLocale, i) ==
    IF i > Len(targetLinks) THEN <<>>
    ELSE TargetLinkWarnings(targetLinks[i].url, sourceLinks, srcLocale, tgtLocale)
         \o TargetLinksWarnings(sourceLinks, targetLinks, srcLocale, tgtLocale, i + 1)

\* The second loop of validateLinkLocalization, from source link i on.
RECURSIVE SourceLinksWarnings(_, _, _, _, _)
SourceLinksWarnings(sourceLinks, targetLinks, srcLocale, tgtLocale, i) ==
    IF i > Len(sourceLinks) THEN <<>>
    ELSE SourceLinkWarnings(sourceLinks[i].url, targetLinks, srcLocale, tgtLocale)
         \o SourceLinksWarnings(sourceLinks, targetLinks, srcLocale, tgtLocale, i + 1)

validateLinkLocalization(sourceLinks, targetLinks, srcLocale, tgtLocale) ==
    TargetLinksWarnings(sourceLinks, targetLinks, srcLocale, tgtLocale, 1)
    \o SourceLinksWarnings(sourceLinks, targetLinks, srcLocale, tgtLocale, 1)

(***************************************************************************)
(* validate.js: extractStructure and extractFrontmatterKeys.               *)
(***************************************************************************)
\* ^ of a pattern with the m flag holds at position p.
LineStartAt(s, p) == p = 1 \/ s[p - 1] \in LineTerminators

\* /^(#{1,6})\s+(.+)$/gm over the whole text.
RECURSIVE HeadingsFrom(_, _)
HeadingsFrom(s, p) ==
    IF p > Len(s) THEN <<>>
    ELSE LET m == IF LineStartAt(s, p) THEN HeadingMatchAt(s, p, TRUE) ELSE Null
         IN  IF m # Null
             THEN << <<m.hashes, m.text>> >> \o HeadingsFrom(s, m.end + 1)
             ELSE HeadingsFrom(s, p + 1)

Fence == <<BT, BT, BT>>

\* /```(\w*)\n([\s\S]*?)```/ tried at position p: [lang, code, end] or
\* Null.  The lazy body ends at the first fence behind the opening line.
CodeBlockMatchAt(s, p) ==
    LET l == RunEnd(s, WordChars, p + 3)
        close == IndexOfFrom(s, Fence, l + 1)
    IN  IF /\ StartsWithAt(s, Fence, p)
           /\ l <= Len(s) /\ s[l] = "\n"
           /\ close # 0
        THEN [lang |-> SubSeq(s, p + 3, l - 1),
              code |-> SubSeq(s, l + 1, close - 1),
              start |-> l + 1,
              end |-> close + 2]
        ELSE Null

RECURSIVE CodeBlockMatchesFrom(_, _)
CodeBlockMatchesFrom(s, p) ==
    IF p > Len(s) THEN <<>>
    ELSE LET m == CodeBlockMatchAt(s, p)
         IN  IF m # Null
             THEN <<m>> \o CodeBlockMatchesFrom(s, m.end + 1)
             ELSE CodeBlockMatchesFrom(s, p + 1)

CodeBlocksOf(s) ==
    LET ms == CodeBlockMatchesFrom(s, 1)
    IN  [k \in 1..Len(ms) |-> <<ms[k].lang, ms[k].code>>]

\* /^[-*]\s+(.+)$/gm over the whole text.
ListItemMatchAt(s, p) ==
    LET tail == SpaceThenText(s, p + 1, TRUE)
    IN  IF s[p] \in {"-", "*"} /\ tail # Null
        THEN [text |-> SubSeq(s, tail.from, tail.to), end |-> tail.to]
        ELSE Null

RECURSIVE ListItemsFrom(_, _)
ListItemsFrom(s, p) ==
    IF p > Len(s) THEN <<>>
    ELSE LET m == IF LineStartAt(s, p) THEN ListItemMatchAt(s, p) ELSE Null
         IN  IF m # Null
             THEN <<m.text>> \o ListItemsFrom(s, m.end + 1)
             ELSE ListItemsFrom(s, p + 1)

\* The key a frontmatter line sets, as a set of zero or one key.
FrontmatterLineKey(line) ==
    LET colonIdx == IndexOfFrom(line, <<":">>, 1) - 1
    IN  IF colonIdx > 0 THEN {Trim(SubSeq(line, 1, colonIdx))} ELSE {}

\* content.match(/^---\n([\s\S]*?)\n---/) and the keys of its lines.
extractFrontmatterKeys(s) ==
    LET close == IndexOfFrom(s, <<"\n", "-", "-", "-">>, 5)
    IN  IF StartsWith(s, <<"-", "-", "-", "\n">>) /\ close # 0
        THEN LET lines == Split(SubSeq(s, 5, close - 1), "\n")
             IN  UNION {FrontmatterLineKey(lines[k]) : k \in 1..Len(lines)}
        ELSE {}

extractStructure(s) ==
    [headings |-> HeadingsFrom(s, 1),
     codeBlocks |-> CodeBlocksOf(s),
     links |-> extractLinks(s),
     listItems |-> ListItemsFrom(s, 1),
     frontmatter |-> extractFrontmatterKeys(s)]

(***************************************************************************)
(* validate.js: validatePair.  A message is a record: its kind is the      *)
(* fixed start of the message text, the other fields are the values the    *)
(* text carries.                                                           *)
(***************************************************************************)
Abs(x) == IF x < 0 THEN -x ELSE x

\* Mutant: the target body is compared untrimmed.
CodeBlockErrors_TargetUntrimmed(srcBlocks, tgtBlocks, i) ==
    (IF srcBlocks[i][1] # tgtBlocks[i][1]
     THEN <<[kind |-> "Code block language mismatch", at |-> i]>> ELSE <<>>)
    \o
    (IF Trim(srcBlocks[i][2]) # tgtBlocks[i][2]
     THEN <<[kind |-> "Code block content changed", at |-> i]>> ELSE <<>>)

\* The errors of code block i.
CodeBlockErrors(srcBlocks, tgtBlocks, i) ==
    (IF srcBlocks[i][1] # tgtBlocks[i][1]
     THEN <<[kind |-> "Code block language mismatch", at |-> i]>> ELSE <<>>)
    \o
    (IF Trim(srcBlocks[i][2]) # Trim(tgtBlocks[i][2])
     THEN <<[kind |-> "Code block content changed", at |-> i]>> ELSE <<>>)

\* Mutant: the loop stops one block early.
RECURSIVE CodeBlocksErrors_SkipLast(_, _, _)
CodeBlocksErrors_SkipLast(srcBlocks, tgtBlocks, i) ==
    IF i > Len(srcBlocks) - 1 THEN <<>>
    ELSE CodeBlockErrors(srcBlocks, tgtBlocks, i)
         \o CodeBlocksErrors_SkipLast(srcBlocks, tgtBlocks, i + 1)

RECURSIVE CodeBlocksErrors(_, _, _)
CodeBlocksErrors(srcBlocks, tgtBlocks, i) ==
    IF i > Len(srcBlocks) THEN <<>>
    ELSE CodeBlockErrors(srcBlocks, tgtBlocks, i)
         \o CodeBlocksErrors(srcBlocks, tgtBlocks, i + 1)

\* Mutant: the keys the source lacks are reported as missing.
PairErrors_MissingSwapped(src, tgt) ==
    LET missing == tgt.frontmatter \ src.frontmatter
    IN  (IF Len(src.headings) # Len(tgt.headings)
         THEN <<[kind |-> "Heading count mismatch",
                 source |-> Len(src.headings), target |-> Len(tgt.headings)]>>
         ELSE <<>>)
        \o
        (IF Len(src.codeBlocks) # Len(tgt.codeBlocks)
         THEN <<[kind |-> "Code block count mismatch",
                 source |-> Len(src.codeBlocks), target |-> Len(tgt.codeBlocks)]>>
         ELSE CodeBlocksErrors(src.codeBlocks, tgt.codeBlocks, 1))
        \o
        (IF missing # {}
         THEN <<[kind |-> "Missing frontmatter keys", keys |-> missing]>>
         ELSE <<>>)

\* Mutant: the headings are compared, not their number.
PairErrors_HeadingText(src, tgt) ==
    LET missing == src.frontmatter \ tgt.frontmatter
    IN  (IF src.headings # tgt.headings
         THEN <<[kind |-> "Heading count mismatch",
                 source |-> Len(src.headings), target |-> Len(tgt.headings)]>>
         ELSE <<>>)
        \o
        (IF Len(src.codeBlocks) # Len(tgt.codeBlocks)
         THEN <<[kind |-> "Code block count mismatch",
                 source |-> Len(src.codeBlocks), target |-> Len(tgt.codeBlocks)]>>
         ELSE CodeBlocksErrors(src.codeBlocks, tgt.codeBlocks, 1))
        \o
        (IF missing # {}
         THEN <<[kind |-> "Missing frontmatter keys", keys |-> missing]>>
         ELSE <<>>)

PairErrors(src, tgt) ==
    LET missing == src.frontmatter \ tgt.frontmatter
    IN  (IF Len(src.headings) # Len(tgt.headings)
         THEN <<[kind |-> "Heading count mismatch",
                 source |-> Len(src.headings), target |-> Len(tgt.headings)]>>
         ELSE <<>>)
        \o
        (IF Len(src.codeBlocks) # Len(tgt.codeBlocks)
         THEN <<[kind |-> "Code block count mismatch",
                 source |-> Len(src.codeBlocks), target |-> Len(tgt.codeBlocks)]>>
         ELSE CodeBlocksErrors(src.codeBlocks, tgt.codeBlocks, 1))
        \o
        (IF missing # {}
         THEN <<[kind |-> "Missing frontmatter keys", keys |-> missing]>>
         ELSE <<>>)

PairWarnings(src, tgt, srcLocale, tgtLocale) ==
    LET extra == tgt.frontmatter \ src.frontmatter
    IN  (IF Len(src.links) # Len(tgt.links)
         THEN <<[kind |-> "Link count mismatch",
                 source |-> Len(src.links), target |-> Len(tgt.links)]>>
         ELSE <<>>)
        \o
        (IF srcLocale # Undefined \/ tgtLocale # Undefined
         THEN validateLinkLocalization(src.links, tgt.links, srcLocale, tgtLocale)
         ELSE <<>>)
        \o
        (IF extra # {}
         THEN <<[kind |-> "Extra frontmatter keys", keys |-> extra]>>
         ELSE <<>>)
        \o
        (IF Abs(Len(src.listItems) - Len(tgt.listItems)) > 2
         THEN <<[kind |-> "List item count differs significantly",
                 source |-> Len(src.listItems), target |-> Len(tgt.listItems)]>>
         ELSE <<>>)

\* Mutant: a warning fails the validation too.
validatePair_WarningsFail(srcText, tgtText, srcLocale, tgtLocale) ==
    LET src == extractStructure(srcText)
        tgt == extractStructure(tgtText)
        errors == PairErrors(src, tgt)
        warnings == PairWarnings(src, tgt, srcLocale, tgtLocale)
    IN  [passed |-> Len(errors) = 0 /\ Len(warnings) = 0,
         errors |-> errors,
         warnings |-> warnings,
         localeInfo |-> [sourceLocale |-> srcLocale, targetLocale |-> tgtLocale]]

validatePair(srcText, tgtText, srcLocale, tgtLocale) ==
    LET src == extractStructure(srcText)
        tgt == extractStructure(tgtText)
        errors == PairErrors(src, tgt)
        warnings == PairWarnings(src, tgt, srcLocale, tgtLocale)
    IN  [passed |-> Len(errors) = 0,
         errors |-> errors,
         warnings |-> warnings,
         localeInfo |-> [sourceLocale |-> srcLocale, targetLocale |-> tgtLocale]]

(***************************************************************************)
(* Specification SpecValidate: validatePair applied to two documents, each *)
(* made of at most MaxDocParts parts joined by newlines.                   *)
(***************************************************************************)
En == <<"e", "n">>
Zh == <<"z", "h">>

FrontmatterT == <<"-", "-", "-", "\n", "t", ":", " ", "G", "\n", "-", "-", "-">>
FrontmatterTD ==
    <<"-", "-", "-", "\n", "t", ":", " ", "G", "\n", "d", ":", " ", "S", "\n", "-", "-", "-">>
HeadingG == <<"#", " ", "G">>
HeadingZ == <<"#", " ", "Z">>
ListItemI == <<"-", " ", "i">>
CodeX == Fence \o <<"s", "h", "\n", "x", "\n">> \o Fence
CodeY == Fence \o <<"s", "h", "\n", "y", "\n">> \o Fence
LinkTo(url) == <<"[", "a", "]", "(">> \o url \o <<")">>
UrlEnP == <<"/", "e", "n", "/", "p">>
UrlZhP == <<"/", "z", "h", "/", "p">>
UrlP == <<"/", "p">>
UrlExt == Http \o <<"e">>

DocPartSet ==
    { FrontmatterT, FrontmatterTD, HeadingG, HeadingZ, ListItemI, CodeX, CodeY,
      LinkTo(UrlEnP), LinkTo(UrlZhP), LinkTo(UrlP), LinkTo(UrlExt) }

PairDocs == {Join(ps, "\n") : ps \in SeqsUpTo(DocPartSet, MaxDocParts)}

\* The locales given to validatePair: none, one or both known.
LocaleConfigs == {<<Undefined, Undefined>>, <<En, Undefined>>, <<Undefined, Zh>>, <<En, Zh>>}

InitValidate ==
    /\ pc = "start"
    /\ source \in PairDocs
    /\ target \in PairDocs
    /\ \E lc \in LocaleConfigs : sourceLocale = lc[1] /\ targetLocale = lc[2]
    /\ result = Null
    /\ DiffIdle /\ HunkIdle /\ SecIdle /\ DirIdle /\ OtherIdle

ValidatePair ==
    /\ pc = "start"
    /\ result' = validatePair(source, target, sourceLocale, targetLocale)
    /\ pc' = "done"
    /\ UNCHANGED <<source, target, sourceLocale, targetLocale,
                   diffVars, hunkVars, secVars, dirVars, otherVars>>

NextValidate == ValidatePair

SpecValidate == InitValidate /\ [][NextValidate]_vars

(***************************************************************************)
(* Specification SpecCodeEdit: validatePair applied to a document with     *)
(* fenced code blocks and a copy of it in which one character of a code    *)
(* block body is replaced.                                                 *)
(***************************************************************************)
CodeBlockText(lang, body) == Fence \o lang \o <<"\n">> \o body \o Fence

CodeLangSet == { <<"s", "h">>, <<>> }
CodeBodySet ==
    { <<"x", "\n">>, <<" ", "x", " ", "y", "\n">>, <<"x", BT, BT, "\n">>, <<"\n", "x">> }
CodeBlockSet == {CodeBlockText(l, b) : l \in CodeLangSet, b \in CodeBodySet}

CodeDocs ==
    {Join(bs, "\n") : bs \in SeqsUpTo(CodeBlockSet, MaxCodeBlocks) \ {<<>>}}

\* The characters an edit writes.
EditChars == {"x", "z", " ", "\n", BT}

\* The positions of the text that lie in the body of a code block.
BodyPositions(s) ==
    LET ms == CodeBlockMatchesFrom(s, 1)
    IN  UNION {ms[k].start .. (ms[k].end - 3) : k \in 1..Len(ms)}

InitCodeEdit ==
    /\ pc = "start"
    /\ source \in CodeDocs
    /\ \E c \in BodyPositions(source), x \in EditChars :
          /\ x # source[c]
          /\ target = [source EXCEPT ![c] = x]
    /\ sourceLocale = Undefined /\ targetLocale = Undefined
    /\ result = Null
    /\ DiffIdle /\ HunkIdle /\ SecIdle /\ DirIdle /\ OtherIdle

NextCodeEdit == ValidatePair

SpecCodeEdit == InitCodeEdit /\ [][NextCodeEdit]_vars

(***************************************************************************)
(* validate.js: locale detection, validateFiles, validateDirectories and   *)
(* the --dir branch of main.                                               *)
(***************************************************************************)
\* filePath.match(/\/([a-z]{2})\//): the first two-letter path segment.
RECURSIVE DetectLocaleFrom(_, _)
DetectLocaleFrom(path, p) ==
    IF p + 3 > Len(path) THEN Undefined
    ELSE IF /\ path[p] = "/" /\ path[p + 1] \in LowerCase
            /\ path[p + 2] \in LowerCase /\ path[p + 3] = "/"
    THEN SubSeq(path, p + 1, p + 2)
    ELSE DetectLocaleFrom(path, p + 1)

detectLocaleFromPath(path) == DetectLocaleFrom(path, 1)

parseLocales(sourcePath, targetPath, optSource, optTarget) ==
    [sourceLocale |-> IF optSource = Undefined
                      THEN detectLocaleFromPath(sourcePath) ELSE optSource,
     targetLocale |-> IF optTarget = Undefined
                      THEN detectLocaleFromPath(targetPath) ELSE optTarget]

\* a || b on texts
OrElse(a, b) == IF a # Undefined THEN a ELSE b

\* path.join(dir, relPath)
PathJoin(dir, relPath) == dir \o <<"/">> \o relPath

validateFiles(sourcePath, srcText, targetPath, tgtText, srcLocale, tgtLocale) ==
    IF srcLocale = Undefined \/ tgtLocale = Undefined
    THEN LET detected == parseLocales(sourcePath, targetPath, srcLocale, tgtLocale)
         IN  validatePair(srcText, tgtText,
                          OrElse(detected.sourceLocale, srcLocale),
                          OrElse(detected.targetLocale, tgtLocale))
    ELSE validatePair(srcText, tgtText, srcLocale, tgtLocale)

\* Mutant: a missing target file is reported without failing the file.
DirectoryEntry_MissingPasses(relPath) ==
    LET srcLocale == OrElse(sourceLocale, detectLocaleFromPath(sourceDir))
        tgtLocale == OrElse(targetLocale, detectLocaleFromPath(targetDir))
        srcFile == PathJoin(sourceDir, relPath)
        tgtFile == PathJoin(targetDir, relPath)
    IN  IF relPath \in DOMAIN targetFiles
        THEN validateFiles(srcFile, sourceFiles[relPath], tgtFile, targetFiles[relPath],
                           srcLocale, tgtLocale)
        ELSE [passed |-> TRUE,
              errors |-> <<[kind |-> "Target file missing", file |-> tgtFile]>>,
              warnings |-> <<>>,
              localeInfo |-> [sourceLocale |-> srcLocale, targetLocale |-> tgtLocale]]

\* The entry validateDirectories stores for one source file.
DirectoryEntry(relPath) ==
    LET srcLocale == OrElse(sourceLocale, detectLocaleFromPath(sourceDir))
        tgtLocale == OrElse(targetLocale, detectLocaleFromPath(targetDir))
        srcFile == PathJoin(sourceDir, relPath)
        tgtFile == PathJoin(targetDir, relPath)
    IN  IF relPath \in DOMAIN targetFiles
        THEN validateFiles(srcFile, sourceFiles[relPath], tgtFile, targetFiles[relPath],
                           srcLocale, tgtLocale)
        ELSE [passed |-> FALSE,
              errors |-> <<[kind |-> "Target file missing", file |-> tgtFile]>>,
              warnings |-> <<>>,
              localeInfo |-> [sourceLocale |-> srcLocale, targetLocale |-> tgtLocale]]

(***************************************************************************)
(* Specification SpecDir: validate.js --dir over two small directories.    *)
(***************************************************************************)
FileA == <<"a", ".", "m", "d">>
FileB == <<"b", ".", "m", "d">>
RelPaths == {FileA, FileB}
\* findMarkdownFiles returns the relative paths sorted.
SortedPaths(S) == SelectSeq(<<FileA, FileB>>, LAMBDA f : f \in S)

DirDocs == { HeadingG, Join(<<HeadingG, LinkTo(UrlExt)>>, "\n"), CodeX }

\* The pair of directories docs are usually kept in.
DirPairs_EnZh == << <<"d", "/", "e", "n">>, <<"d", "/", "z", "h">> >>

DirPairs ==
    { << <<"d", "/", "e", "n">>, <<"d", "/", "z", "h">> >>,
      << <<"s">>, <<"t">> >> }

InitDir ==
    /\ pc = "start"
    /\ \E S \in SUBSET RelPaths : sourceFiles \in [S -> DirDocs]
    /\ \E T \in SUBSET RelPaths : targetFiles \in [T -> DirDocs]
    /\ \E d \in DirPairs : sourceDir = d[1] /\ targetDir = d[2]
    /\ \E lc \in {<<Undefined, Undefined>>, <<En, Zh>>} :
          sourceLocale = lc[1] /\ targetLocale = lc[2]
    /\ todo = SortedPaths(DOMAIN sourceFiles)
    /\ results = <<>>
    /\ exitCode = -1
    /\ source = <<>> /\ target = <<>> /\ result = Null
    /\ DiffIdle /\ HunkIdle /\ SecIdle /\ OtherIdle

\* One iteration of the loop of validateDirectories.
ValidateNextFile ==
    /\ pc = "start"
    /\ todo # <<>>
    /\ results' = Append(results, [file |-> Head(todo),
                                   result |-> DirectoryEntry(Head(todo))])
    /\ todo' = Tail(todo)
    /\ UNCHANGED <<pc, sourceFiles, targetFiles, sourceDir, targetDir, exitCode,
                   valVars, diffVars, hunkVars, secVars, otherVars>>

\* main: process.exit(allPassed ? 0 : 1)
ExitDir ==
    /\ pc = "start"
    /\ todo = <<>>
    /\ LET allPassed == \A k \in 1..Len(results) : results[k].result.passed
       IN  exitCode' = IF allPassed THEN 0 ELSE 1
    /\ pc' = "done"
    /\ UNCHANGED <<sourceFiles, targetFiles, sourceDir, targetDir, todo, results,
                   valVars, diffVars, hunkVars, secVars, otherVars>>

NextDir == ValidateNextFile \/ ExitDir

SpecDir == InitDir /\ [][NextDir]_vars

(***************************************************************************)
(* Claims about the validator.                                             *)
(***************************************************************************)
HasKind(msgs, kind) == \E k \in 1..Len(msgs) : msgs[k].kind = kind

HasInternalLink(text) ==
    LET links == extractLinks(text)
    IN  \E k \in 1..Len(links) : isInternalLink(links[k].url)

\* C5 as stated: a document validated against itself passes with no error
\* and no warning, whatever locales are known.
C5_IdenticalNoWarnings ==
    (pc = "done" /\ source = target) =>
        /\ result.passed
        /\ result.errors = <<>>
        /\ result.warnings = <<>>

\* C5 amended: a document validated against itself passes with no error,
\* whatever locales are known; it has no warning either when the target
\* locale is not known or the document has no internal link.
C5_IdenticalPasses ==
    (pc = "done" /\ source = target) =>
        /\ result.passed
        /\ result.errors = <<>>
        /\ (targetLocale = Undefined \/ ~HasInternalLink(source))
              => result.warnings = <<>>

\* C5 witness: a document with a code block and an external link validated
\* against itself with both locales known: passed, nothing reported.
C5_Witness ==
    /\ pc = "done"
    /\ source = Join(<<CodeX, LinkTo(UrlExt)>>, "\n")
    /\ target = source
    /\ sourceLocale = En /\ targetLocale = Zh
    /\ result.passed /\ result.errors = <<>> /\ result.warnings = <<>>

\* The place where the two texts differ.
EditAt == CHOOSE c \in 1..Len(source) : source[c] # target[c]

\* The number of the source code block whose body holds the place.
EditedBlock ==
    LET ms == CodeBlockMatchesFrom(source, 1)
    IN  CHOOSE k \in 1..Len(ms) : EditAt \in ms[k].start .. (ms[k].end - 3)

\* The edit is one that trimming the body does not remove: the body the
\* target has for the edited block is not the source's after trimming, or
\* the target has no such block.
EditSurvivesTrim ==
    LET sb == extractStructure(source).codeBlocks
        tb == extractStructure(target).codeBlocks
    IN  \/ Len(tb) < EditedBlock
        \/ Trim(tb[EditedBlock][2]) # Trim(sb[EditedBlock][2])

\* The same, read on the texts: the characters of the source body and the
\* characters at the same places of the target differ after trimming.
EditedTextSurvivesTrim ==
    LET m == CodeBlockMatchesFrom(source, 1)[EditedBlock]
    IN  Trim(SubSeq(source, m.start, m.end - 3))
            # Trim(SubSeq(target, m.start, m.end - 3))

C7_FrontmatterAsymmetry ==
    pc = "done" =>
        LET missing == extractFrontmatterKeys(source) \ extractFrontmatterKeys(target)
            extra == extractFrontmatterKeys(target) \ extractFrontmatterKeys(source)
        IN  /\ missing # {} =>
                  /\ ~result.passed
                  /\ \E k \in 1..Len(result.errors) :
                        /\ result.errors[k].kind = "Missing frontmatter keys"
                        /\ result.errors[k].keys = missing
            /\ extra # {} =>
                  \E k \in 1..Len(result.warnings) :
                        /\ result.warnings[k].kind = "Extra frontmatter keys"
                        /\ result.warnings[k].keys = extra
            /\ \A k \in 1..Len(result.errors) :
                  result.errors[k].kind = "Missing frontmatter keys"
                      => (missing # {} /\ result.errors[k].keys \cap extra = {})
            /\ \A k \in 1..Len(result.errors) :
                  result.errors[k].kind \in
                      {"Heading count mismatch", "Code block count mismatch",
                       "Code block language mismatch", "Code block content changed",
                       "Missing frontmatter keys"}

\* C7 witness: the target has a key the source lacks and nothing else
\* differs: one warning, no error, passed.
C7_Witness ==
    /\ pc = "done"
    /\ source = Join(<<FrontmatterT, HeadingG>>, "\n")
    /\ target = Join(<<FrontmatterTD, HeadingZ>>, "\n")
    /\ result.passed
    /\ result.errors = <<>>
    /\ HasKind(result.warnings, "Extra frontmatter keys")

\* C8: every result of validate.js in directory mode, that of a validated
\* pair and that of a missing target file, has passed = true exactly when
\* its error list is empty, whatever its warnings are.
C8_PassedIffNoErrors ==
    \A k \in 1..Len(results) :
        results[k].result.passed <=> (results[k].result.errors = <<>>)

\* C8 witness: the run has stored a result with warnings that passed and a
\* result for a missing target file that did not.
C8_Witness ==
    /\ Len(results) = 2
    /\ results[1].result.passed /\ results[1].result.warnings # <<>>
    /\ ~results[2].result.passed
    /\ HasKind(results[2].result.errors, "Target file missing")

\* The code blocks agree: same number, and block for block the same
\* language tag and the same trimmed body.
SameCodeBlocks(sb, tb) ==
    /\ Len(sb) = Len(tb)
    /\ \A k \in 1..Len(sb) : sb[k][1] = tb[k][1] /\ Trim(sb[k][2]) = Trim(tb[k][2])

\* C9: validatePair passes whenever the two documents have the same number
\* of headings, code blocks that agree, and every source frontmatter key in
\* the target, whatever their heading text, list items, links and prose.
C9_OnlyCountsAndCode ==
    pc = "done" =>
        LET src == extractStructure(source)
            tgt == extractStructure(target)
        IN  (/\ Len(src.headings) = Len(tgt.headings)
             /\ SameCodeBlocks(src.codeBlocks, tgt.codeBlocks)
             /\ src.frontmatter \subseteq tgt.frontmatter)
            => result.passed

\* C9 witness: a translated heading over the same code block passes.
C9_Witness ==
    /\ pc = "done"
    /\ source = Join(<<HeadingG, CodeX>>, "\n")
    /\ target = Join(<<HeadingZ, CodeX>>, "\n")
    /\ extractStructure(source).headings # extractStructure(target).headings
    /\ result.passed

LinkKinds ==
    {"Link still uses source locale", "Internal link missing locale prefix",
     "External link in target not in source", "Missing localized link in target"}

\* A warning of validateLinkLocalization of the given kind about the URL.
WarnsAbout(kind, url) ==
    \E k \in 1..Len(result.warnings) :
        /\ result.warnings[k].kind = kind
        /\ result.warnings[k].url = url

\* C10: with both locales known and different, a source link /s/p whose
\* counterpart /t/p is in the target gets no warning, and neither does the
\* target link /t/p; a target link that still is /s/p gets the warning
\* that it still uses the source locale.
C10_LinkLocalization ==
    (pc = "done" /\ sourceLocale # Undefined /\ targetLocale # Undefined
        /\ sourceLocale # targetLocale) =>
        LET srcLinks == extractLinks(source)
            tgtLinks == extractLinks(target)
            s == LocalePrefix(sourceLocale)
            t == LocalePrefix(targetLocale)
        IN  /\ \A i \in 1..Len(srcLinks) :
                  LET u == srcLinks[i].url
                      v == t \o Substring(u, Len(s))
                  IN  (/\ StartsWith(u, s)
                       /\ \E j \in 1..Len(tgtLinks) : tgtLinks[j].url = v)
                      => /\ ~WarnsAbout("Missing localized link in target", u)
                         /\ \A kind \in LinkKinds : ~WarnsAbout(kind, v)
            /\ \A j \in 1..Len(tgtLinks) :
                  StartsWith(tgtLinks[j].url, s)
                      => WarnsAbout("Link still uses source locale", tgtLinks[j].url)

\* C10 witness: source link /en/p, target link /zh/p, locales en and zh:
\* no warning at all.
C10_Witness ==
    /\ pc = "done"
    /\ sourceLocale = En /\ targetLocale = Zh
    /\ source = Join(<<HeadingG, LinkTo(UrlEnP)>>, "\n")
    /\ target = Join(<<HeadingZ, LinkTo(UrlZhP)>>, "\n")
    /\ result.warnings = <<>>

(***************************************************************************)
(* Specification SpecLinks: validatePair applied to two documents that are *)
(* lists of links.                                                         *)
(***************************************************************************)
UrlZhQuery == <<"/", "z", "h", "?", "q">>

LinkUrlSet == {UrlEnP, UrlZhP, UrlP, UrlZhQuery, UrlExt}

LinkDocs == {Join([k \in 1..Len(us) |-> LinkTo(us[k])], "\n") :
                us \in SeqsUpTo(LinkUrlSet, MaxLinks)}

LinkLocaleConfigs ==
    {<<Undefined, Undefined>>, <<En, Undefined>>, <<Undefined, Zh>>, <<En, Zh>>}

InitLinks ==
    /\ pc = "start"
    /\ source \in LinkDocs
    /\ target \in LinkDocs
    /\ \E lc \in LinkLocaleConfigs : sourceLocale = lc[1] /\ targetLocale = lc[2]
    /\ result = Null
    /\ DiffIdle /\ HunkIdle /\ SecIdle /\ DirIdle /\ OtherIdle

NextLinks == ValidatePair

SpecLinks == InitLinks /\ [][NextLinks]_vars

(***************************************************************************)
(* Claims about the link localization check.                               *)
(***************************************************************************)
\* The URL starts with the literal prefix of the source locale.
HasSourcePrefix(url) ==
    sourceLocale # Undefined /\ StartsWith(url, LocalePrefix(sourceLocale))

\* The URL starts with the target locale, as a path segment or before a
\* query.
HasTargetPrefix(url) ==
    /\ targetLocale # Undefined
    /\ \/ StartsWith(url, LocalePrefix(targetLocale))
       \/ StartsWith(url, <<"/">> \o targetLocale \o <<"?">>)

\* C11 as stated: when at least one locale is known, every internal target
\* link with the source-locale prefix gets the 'still uses source locale'
\* warning and every internal target link without a two-letter prefix gets
\* the 'missing locale prefix' warning.
C11_TargetLinkWarnings ==
    (pc = "done" /\ (sourceLocale # Undefined \/ targetLocale # Undefined)) =>
        LET tgtLinks == extractLinks(target)
        IN  \A j \in 1..Len(tgtLinks) :
                LET u == tgtLinks[j].url
                IN  isInternalLink(u) =>
                      /\ HasSourcePrefix(u)
                            => WarnsAbout("Link still uses source locale", u)
                      /\ ~HasTwoLetterPrefix(u)
                            => WarnsAbout("Internal link missing locale prefix", u)

\* C11 amended: when the target locale is known, every internal target link
\* with the source-locale prefix gets the 'still uses source locale'
\* warning, and every other internal target link that has neither a
\* two-letter prefix nor the target locale in front gets the 'missing
\* locale prefix' warning; when the target locale is not known no target
\* link gets either warning.
C11_TargetLinkWarningsTargetKnown ==
    pc = "done" =>
        LET tgtLinks == extractLinks(target)
        IN  \A j \in 1..Len(tgtLinks) :
                LET u == tgtLinks[j].url
                IN  /\ (targetLocale # Undefined /\ isInternalLink(u)) =>
                          /\ HasSourcePrefix(u)
                                => WarnsAbout("Link still uses source locale", u)
                          /\ (~HasSourcePrefix(u) /\ ~HasTwoLetterPrefix(u)
                                  /\ ~HasTargetPrefix(u))
                                => WarnsAbout("Internal link missing locale prefix", u)
                    /\ targetLocale = Undefined =>
                          /\ ~WarnsAbout("Link still uses source locale", u)
                          /\ ~WarnsAbout("Internal link missing locale prefix", u)

\* C11 witness: target locale zh, source locale en: the target links /en/p
\* and /p get one warning each.
C11_Witness ==
    /\ pc = "done"
    /\ sourceLocale = En /\ targetLocale = Zh
    /\ source = <<>>
    /\ target = Join(<<LinkTo(UrlEnP), LinkTo(UrlP)>>, "\n")
    /\ WarnsAbout("Link still uses source locale", UrlEnP)
    /\ WarnsAbout("Internal link missing locale prefix", UrlP)

\* The expected localized URL as the claim states it.
ClaimedExpectedUrl(url) ==
    IF HasSourcePrefix(url)
    THEN LocalePrefix(targetLocale) \o SubSeq(url, Len(sourceLocale) + 3, Len(url))
    ELSE IF ~HasTwoLetterPrefix(url)
    THEN <<"/">> \o targetLocale \o url
    ELSE url

\* Every internal source link has the 'missing localized link' warning,
\* with the claimed expected URL, exactly when no target link has that URL.
MissingLinkWarningsAsClaimed ==
    LET srcLinks == extractLinks(source)
        tgtLinks == extractLinks(target)
    IN  \A i \in 1..Len(srcLinks) :
            LET u == srcLinks[i].url
                e == ClaimedExpectedUrl(u)
            IN  isInternalLink(u) =>
                  ((\E k \in 1..Len(result.warnings) :
                        /\ result.warnings[k].kind = "Missing localized link in target"
                        /\ result.warnings[k].url = u
                        /\ result.warnings[k].expected = e)
                   <=> (\A j \in 1..Len(tgtLinks) : tgtLinks[j].url # e))

\* C12 as stated: for every internal source link the expected URL is the
\* URL with /<sourceLocale>/ replaced by /<targetLocale>/, else with
\* /<targetLocale> prepended when it has no two-letter prefix, else the URL
\* itself, and the 'missing localized link' warning is there exactly when
\* no target link has that URL (the target locale being known, so that
\* there is an expected URL).
C12_MissingLocalizedLink ==
    (pc = "done" /\ targetLocale # Undefined) => MissingLinkWarningsAsClaimed

\* C12 amended: the same with both locales known; with a locale unknown no
\* 'missing localized link' warning is given.
C12_MissingLocalizedLinkBothKnown ==
    pc = "done" =>
        /\ (sourceLocale # Undefined /\ targetLocale # Undefined)
              => MissingLinkWarningsAsClaimed
        /\ (sourceLocale = Undefined \/ targetLocale = Undefined)
              => ~HasKind(result.warnings, "Missing localized link in target")

\* C12 witness: locales en and zh, source links /en/p and /zh?q, target
\* link /zh/p: /en/p has its counterpart, /zh?q is reported missing.
C12_Witness ==
    /\ pc = "done"
    /\ sourceLocale = En /\ targetLocale = Zh
    /\ source = Join(<<LinkTo(UrlEnP), LinkTo(UrlZhQuery)>>, "\n")
    /\ target = LinkTo(UrlZhP)
    /\ ~WarnsAbout("Missing localized link in target", UrlEnP)
    /\ WarnsAbout("Missing localized link in target", UrlZhQuery)

(***************************************************************************)
(* sync-plan.js: createSyncPlan.  A file of a directory is a record: stat  *)
(* tells whether fs.stat succeeds, readable whether fs.readFile does.      *)
(***************************************************************************)
\* createHash('md5').update(content).digest('hex'): equal contents have
\* equal digests, and the digests of the contents used here differ.
Md5(text) == [md5 |-> text]

\* Date.prototype.toISOString
ToISOString(time) == [iso |-> time]

\* The value null in a place where the other values are strings.
NullString == <<"NULL">>

getFileHash(file) == IF file.readable THEN Md5(file.content) ELSE Null

getFileStats(file) ==
    IF file.stat
    THEN [mtime |-> file.mtime, size |-> Len(file.content), hash |-> getFileHash(file)]
    ELSE Null

\* The notes of an entry, written as their tag: the text behind the tag is
\* not ASCII and is the same for every entry of one tag.
NotesNew == "NEW"
NotesDeleted == "DELETED"
NotesModified == "MODIFIED"
NotesUnchanged == "UNCHANGED"
NotesError == "ERROR"

\* Mutant: the sizes are compared instead of the hashes.
SyncFileEntry_CompareSize(relPath) ==
    LET inSource == relPath \in DOMAIN sourceFiles
        inTarget == relPath \in DOMAIN targetFiles
        src == PathJoin(sourceDir, relPath)
        tgt == PathJoin(targetDir, relPath)
    IN  IF inSource /\ ~inTarget
        THEN [source |-> src, target |-> tgt, status |-> "pending", notes |-> NotesNew]
        ELSE IF ~inSource /\ inTarget
        THEN [source |-> NullString, target |-> tgt, status |-> "deleted",
              notes |-> NotesDeleted]
        ELSE LET sourceStats == getFileStats(sourceFiles[relPath])
                 targetStats == getFileStats(targetFiles[relPath])
             IN  IF sourceStats # Null /\ targetStats # Null
                 THEN IF sourceStats.size # targetStats.size
                      THEN [source |-> src, target |-> tgt, status |-> "needs_update",
                            notes |-> NotesModified,
                            source_hash |-> sourceStats.hash,
                            target_hash |-> targetStats.hash,
                            source_mtime |-> ToISOString(sourceStats.mtime),
                            target_mtime |-> ToISOString(targetStats.mtime)]
                      ELSE [source |-> src, target |-> tgt, status |-> "done",
                            notes |-> NotesUnchanged,
                            source_hash |-> sourceStats.hash]
                 ELSE [source |-> src, target |-> tgt, status |-> "pending",
                       notes |-> NotesError]

\* The entry of one relative path of allPaths.
SyncFileEntry(relPath) ==
    LET inSource == relPath \in DOMAIN sourceFiles
        inTarget == relPath \in DOMAIN targetFiles
        src == PathJoin(sourceDir, relPath)
        tgt == PathJoin(targetDir, relPath)
    IN  IF inSource /\ ~inTarget
        THEN [source |-> src, target |-> tgt, status |-> "pending", notes |-> NotesNew]
        ELSE IF ~inSource /\ inTarget
        THEN [source |-> NullString, target |-> tgt, status |-> "deleted",
              notes |-> NotesDeleted]
        ELSE LET sourceStats == getFileStats(sourceFiles[relPath])
                 targetStats == getFileStats(targetFiles[relPath])
             IN  IF sourceStats # Null /\ targetStats # Null
                 THEN IF sourceStats.hash # targetStats.hash
                      THEN [source |-> src, target |-> tgt, status |-> "needs_update",
                            notes |-> NotesModified,
                            source_hash |-> sourceStats.hash,
                            target_hash |-> targetStats.hash,
                            source_mtime |-> ToISOString(sourceStats.mtime),
                            target_mtime |-> ToISOString(targetStats.mtime)]
                      ELSE [source |-> src, target |-> tgt, status |-> "done",
                            notes |-> NotesUnchanged,
                            source_hash |-> sourceStats.hash]
                 ELSE [source |-> src, target |-> tgt, status |-> "pending",
                       notes |-> NotesError]

\* The counters after the entry of one path.
SyncSummaryAfter(sum, entry) ==
    LET counted ==
            IF entry.notes = NotesNew THEN [sum EXCEPT !.new = @ + 1]
            ELSE IF entry.notes = NotesDeleted THEN [sum EXCEPT !.deleted = @ + 1]
            ELSE IF entry.notes = NotesModified THEN [sum EXCEPT !.modified = @ + 1]
            ELSE IF entry.notes = NotesUnchanged THEN [sum EXCEPT !.unchanged = @ + 1]
            ELSE sum
    IN  [counted EXCEPT !.total = @ + 1]

SyncPlanOf(files, sum, now) ==
    LET needsAction == sum.new + sum.modified + sum.deleted
        overallStatus == IF needsAction = 0 THEN "completed"
                         ELSE IF sum.unchanged > 0 THEN "in_progress"
                         ELSE "not_started"
    IN  [meta |-> [created |-> ToISOString(now), source_dir |-> sourceDir,
                   target_dir |-> targetDir, type |-> "sync",
                   status |-> overallStatus],
         summary |-> [total |-> sum.total, new |-> sum.new, deleted |-> sum.deleted,
                      modified |-> sum.modified, unchanged |-> sum.unchanged,
                      needs_action |-> needsAction],
         files |-> files,
         log |-> <<>>]

(***************************************************************************)
(* Specification SpecSync: sync-plan.js over two small directories.        *)
(***************************************************************************)
Times == {1, 2}

SyncFileSet ==
    {[stat |-> TRUE, readable |-> TRUE, content |-> c, mtime |-> 1] :
        c \in {HeadingG, HeadingZ}}
    \cup {[stat |-> TRUE, readable |-> FALSE, content |-> <<>>, mtime |-> 1],
          [stat |-> FALSE, readable |-> FALSE, content |-> <<>>, mtime |-> 1]}

InitSync ==
    /\ pc = "start"
    /\ \E S \in SUBSET RelPaths : sourceFiles \in [S -> SyncFileSet]
    /\ \E T \in SUBSET RelPaths : targetFiles \in [T -> SyncFileSet]
    /\ \E d \in DirPairs : sourceDir = d[1] /\ targetDir = d[2]
    /\ todo = SortedPaths(DOMAIN sourceFiles \cup DOMAIN targetFiles)
    /\ planFiles = <<>>
    /\ summary = [new |-> 0, deleted |-> 0, modified |-> 0, unchanged |-> 0,
                  total |-> 0]
    /\ plan = Null
    /\ results = <<>> /\ exitCode = -1
    /\ DiffIdle /\ HunkIdle /\ SecIdle /\ ValIdle /\ AffIdle /\ UpdIdle
    /\ GitIdle /\ CmpIdle

\* One iteration of the loop over allPaths.
CompareNextFile ==
    /\ pc = "start"
    /\ todo # <<>>
    /\ LET fileEntry == SyncFileEntry(Head(todo))
       IN  /\ planFiles' = Append(planFiles, fileEntry)
           /\ summary' = SyncSummaryAfter(summary, fileEntry)
    /\ todo' = Tail(todo)
    /\ UNCHANGED <<pc, sourceFiles, targetFiles, sourceDir, targetDir, results,
                   exitCode, plan, diffVars, hunkVars, secVars, valVars, affVars,
                   updVars, gitVars, cmpVars>>

\* The plan is built and written.
WriteSyncPlan ==
    /\ pc = "start"
    /\ todo = <<>>
    /\ \E now \in Times : plan' = SyncPlanOf(planFiles, summary, now)
    /\ pc' = "done"
    /\ UNCHANGED <<sourceFiles, targetFiles, sourceDir, targetDir, todo, results,
                   exitCode, syncVars, diffVars, hunkVars, secVars, valVars, affVars,
                   updVars, gitVars, cmpVars>>

NextSync == CompareNextFile \/ WriteSyncPlan

SpecSync == InitSync /\ [][NextSync]_vars

\* The file entries of the plan for the relative path.
SyncEntriesOf(relPath) ==
    {k \in 1..Len(plan.files) : plan.files[k].target = PathJoin(targetDir, relPath)}

\* C13: the plan createSyncPlan writes has exactly one entry for every
\* relative path found in either directory: pending / NEW for a path of the
\* source only, deleted / DELETED for a path of the target only,
\* needs_update / MODIFIED for a path of both with different content hashes
\* and done / UNCHANGED for a path of both with the same hash.
C13_SyncClassification ==
    (pc = "done" /\ plan # Null) =>
        LET allPaths == DOMAIN sourceFiles \cup DOMAIN targetFiles
        IN  /\ Len(plan.files) = Cardinality(allPaths)
            /\ \A p \in allPaths :
                  /\ Cardinality(SyncEntriesOf(p)) = 1
                  /\ LET e == plan.files[CHOOSE k \in SyncEntriesOf(p) : TRUE]
                         inSource == p \in DOMAIN sourceFiles
                         inTarget == p \in DOMAIN targetFiles
                     IN  /\ (inSource /\ ~inTarget)
                               => (e.status = "pending" /\ e.notes = NotesNew)
                         /\ (~inSource /\ inTarget)
                               => (e.status = "deleted" /\ e.notes = NotesDeleted)
                         /\ (inSource /\ inTarget /\ sourceFiles[p].stat
                                /\ targetFiles[p].stat)
                               => IF getFileHash(sourceFiles[p]) # getFileHash(targetFiles[p])
                                  THEN e.status = "needs_update" /\ e.notes = NotesModified
                                  ELSE e.status = "done" /\ e.notes = NotesUnchanged

\* C13 witness: a.md in both directories with different contents, b.md in
\* the source only: needs_update and pending.
C13_Witness ==
    /\ pc = "done" /\ plan # Null
    /\ DOMAIN sourceFiles = {FileA, FileB} /\ DOMAIN targetFiles = {FileA}
    /\ sourceFiles[FileA].readable /\ targetFiles[FileA].readable
    /\ sourceFiles[FileA].content # targetFiles[FileA].content
    /\ Len(plan.files) = 2
    /\ plan.files[1].status = "needs_update"
    /\ plan.files[2].status = "pending"

(***************************************************************************)
(* update-plan.js (git-diff-sync): findAffectedSections.  The Map affected *)
(* is the sequence of its entries [title, hunks] in insertion order.       *)
(***************************************************************************)
\* !hunk || typeof hunk.new_start === 'undefined'
IsInvalidHunk(h) == h = Null \/ "new_start" \notin DOMAIN h

\* The hunk falls into the section, as the inner loop tests it.
HunkInSection(h, section) ==
    h.new_start >= section.start /\ h.new_start <= section.end + 1

\* Mutant: a hunk behind the last line of a section is not taken.
FirstSectionOf_EndExclusive(h, secs) ==
    LET hits == {k \in 1..Len(secs) :
                    h.new_start >= secs[k].start /\ h.new_start <= secs[k].end}
    IN  IF hits = {} THEN 0 ELSE CHOOSE k \in hits : \A j \in hits : k <= j

\* Mutant: the inner loop has no break, the last section that holds the
\* hunk gets it.
FirstSectionOf_LastHit(h, secs) ==
    LET hits == {k \in 1..Len(secs) : HunkInSection(h, secs[k])}
    IN  IF hits = {} THEN 0 ELSE CHOOSE k \in hits : \A j \in hits : k >= j

\* The section at which the inner loop breaks: its index, 0 when the loop
\* ends without a hit.
FirstSectionOf(h, secs) ==
    LET hits == {k \in 1..Len(secs) : HunkInSection(h, secs[k])}
    IN  IF hits = {} THEN 0 ELSE CHOOSE k \in hits : \A j \in hits : k <= j

\* affected.get(title).push(hunk), after affected.set(title, []) for a new
\* title.
AffectedPush(aff, title, h) ==
    IF \E k \in 1..Len(aff) : aff[k].title = title
    THEN [k \in 1..Len(aff) |->
             IF aff[k].title = title
             THEN [aff[k] EXCEPT !.hunks = Append(@, h)]
             ELSE aff[k]]
    ELSE Append(aff, [title |-> title, hunks |-> <<h>>])

\* The outer loop from hunk i on.
RECURSIVE AffectedLoop(_, _, _, _)
AffectedLoop(aff, hs, secs, i) ==
    IF i > Len(hs) THEN aff
    ELSE IF IsInvalidHunk(hs[i]) THEN AffectedLoop(aff, hs, secs, i + 1)
    ELSE LET k == FirstSectionOf(hs[i], secs)
         IN  IF k = 0 THEN AffectedLoop(aff, hs, secs, i + 1)
             ELSE AffectedLoop(AffectedPush(aff, secs[k].title, hs[i]), hs, secs, i + 1)

\* h.operation || 'unknown'
OperationOf(h) ==
    IF "operation" \in DOMAIN h THEN h.operation ELSE "unknown"

\* .filter((op, index, self) => self.indexOf(op) === index)
RECURSIVE Unique(_)
Unique(seq) ==
    IF seq = <<>> THEN <<>>
    ELSE LET front == Unique(SubSeq(seq, 1, Len(seq) - 1))
             last == seq[Len(seq)]
         IN  IF \E k \in 1..Len(front) : front[k] = last THEN front
             ELSE Append(front, last)

findAffectedSections(hs, secs) ==
    LET aff == AffectedLoop(<<>>, hs, secs, 1)
    IN  [k \in 1..Len(aff) |->
            [section_title |-> aff[k].title,
             hunks |-> aff[k].hunks,
             operation_types |->
                 Unique([j \in 1..Len(aff[k].hunks) |-> OperationOf(aff[k].hunks[j])]),
             total_changes |-> Len(aff[k].hunks)]]

(***************************************************************************)
(* Specification SpecAffected: findAffectedSections applied to the         *)
(* sections of a document and a list of hunks.                             *)
(***************************************************************************)
AffLineSet == { <<"#", " ", "A">>, <<"#", " ", "B">>, <<"t">> }

AffDocs == {Join(ls, "\n") : ls \in SeqsUpTo(AffLineSet, MaxDocLines)}

\* Hunks as analyzeHunkOperation returns them, reduced to the fields
\* findAffectedSections reads, a hunk without operation, a hunk without
\* new_start and null.
AffHunkSet ==
    {[new_start |-> n, new_count |-> 1, operation |-> "add"] : n \in 0..(MaxDocLines + 1)}
    \cup {[new_start |-> 1, new_count |-> 1, operation |-> "modify"],
          [new_start |-> 1, new_count |-> 1],
          [header |-> <<"@", "@">>],
          Null}

InitAffected ==
    /\ pc = "start"
    /\ content \in AffDocs
    /\ sections = parseMarkdownSections(content)
    /\ hunks \in SeqsUpTo(AffHunkSet, MaxAffHunks)
    /\ diffOutput = <<>>
    /\ affected = <<>>
    /\ HunkIdle /\ ValIdle /\ DirIdle /\ SyncIdle /\ PlanIdle /\ UpdIdle
    /\ GitIdle /\ CmpIdle

FindAffectedSections ==
    /\ pc = "start"
    /\ affected' = findAffectedSections(hunks, sections)
    /\ pc' = "done"
    /\ UNCHANGED <<diffVars, secVars, hunkVars, valVars, dirVars, syncVars, planVars,
                   updVars, gitVars, cmpVars>>

NextAffected == FindAffectedSections

SpecAffected == InitAffected /\ [][NextAffected]_vars

\* The first section in document order whose range, widened by one line at
\* its end, holds the hunk's new_start: its index, 0 when there is none.
ClaimedSectionOf(h) ==
    LET hits == {k \in 1..Len(sections) :
                    sections[k].start <= h.new_start
                        /\ h.new_start <= sections[k].end + 1}
    IN  IF hits = {} THEN 0 ELSE CHOOSE k \in hits : \A j \in hits : k <= j

\* The valid hunks attributed to a section with the title, in order.
ClaimedHunksOf(title) ==
    SelectSeq(hunks, LAMBDA h :
        /\ ~IsInvalidHunk(h)
        /\ ClaimedSectionOf(h) # 0
        /\ sections[ClaimedSectionOf(h)].title = title)

\* C14: every valid hunk is attributed to at most one section, the first in
\* document order with start <= new_start <= end + 1: the result lists under
\* a section title exactly the hunks whose first such section has the
\* title, in order, every title once, and no entry is without hunks.
C14_AffectedSections ==
    pc = "done" =>
        /\ \A k \in 1..Len(affected) :
              /\ affected[k].hunks = ClaimedHunksOf(affected[k].section_title)
              /\ affected[k].hunks # <<>>
              /\ affected[k].total_changes = Len(affected[k].hunks)
              /\ \A j \in 1..Len(affected) :
                    affected[j].section_title = affected[k].section_title => j = k
        /\ \A i \in 1..Len(sections) :
              ClaimedHunksOf(sections[i].title) # <<>>
                  => \E k \in 1..Len(affected) :
                        affected[k].section_title = sections[i].title

\* C14 witness: two sections A (lines 0-1) and B (lines 2-3); a hunk with
\* new_start 2 = A.end + 1 goes to A, B has no hunk and is not in the result.
C14_Witness ==
    /\ pc = "done"
    /\ Len(sections) = 2
    /\ sections[1].end = 1 /\ sections[2].start = 2
    /\ sections[1].title # sections[2].title
    /\ Len(hunks) = 1 /\ ~IsInvalidHunk(hunks[1]) /\ hunks[1].new_start = 2
    /\ Len(affected) = 1
    /\ affected[1].section_title = sections[1].title

(***************************************************************************)
(* create-plan.js: createPlan, and update-plan.js: updatePlan.  The plan   *)
(* file is held as the data yaml.dump writes and yaml.load reads back.     *)
(***************************************************************************)
\* The file entries createPlan pushes for the sorted relative paths.
CreatePlanFiles(paths) ==
    [k \in 1..Len(paths) |->
        [source |-> PathJoin(sourceDir, paths[k]),
         target |-> PathJoin(targetDir, paths[k]),
         status |-> IF paths[k] \in DOMAIN targetFiles THEN "done" ELSE "pending",
         notes |-> ""]]

\* files.filter(f => f.status === 'done').length
RECURSIVE CountDone(_)
CountDone(files) ==
    IF files = <<>> THEN 0
    ELSE (IF Head(files).status = "done" THEN 1 ELSE 0) + CountDone(Tail(files))

createPlan(paths, now) ==
    LET files == CreatePlanFiles(paths)
        completed == CountDone(files)
        remaining == Len(files) - completed
        status == IF remaining = 0 THEN "completed"
                  ELSE IF completed > 0 THEN "in_progress" ELSE "not_started"
    IN  [meta |-> [created |-> ToISOString(now), source_dir |-> sourceDir,
                   target_dir |-> targetDir, status |-> status],
         summary |-> [total |-> Len(files), completed |-> completed,
                      remaining |-> remaining],
         files |-> files,
         log |-> <<>>]

\* The plan createSyncPlan writes for the sorted relative paths.
RECURSIVE SyncSummaryOf(_, _)
SyncSummaryOf(sum, files) ==
    IF files = <<>> THEN sum
    ELSE SyncSummaryOf(SyncSummaryAfter(sum, Head(files)), Tail(files))

createSyncPlan(paths, now) ==
    LET files == [k \in 1..Len(paths) |-> SyncFileEntry(paths[k])]
    IN  SyncPlanOf(files,
                   SyncSummaryOf([new |-> 0, deleted |-> 0, modified |-> 0,
                                  unchanged |-> 0, total |-> 0], files),
                   now)

\* file.source === sourceFile || file.source.endsWith(sourceFile), for a
\* source that is a string.
MatchesSource(file, sourceFile) ==
    file.source = sourceFile \/ EndsWith(file.source, sourceFile)

\* Mutant: a loop that ends without a match takes the last entry.
RECURSIVE FindFile_LastWhenNone(_, _, _)
FindFile_LastWhenNone(files, sourceFile, i) ==
    IF i > Len(files) THEN Len(files)
    ELSE IF files[i].source = NullString THEN -1
    ELSE IF MatchesSource(files[i], sourceFile) THEN i
    ELSE FindFile_LastWhenNone(files, sourceFile, i + 1)

\* The loop over plan.files from entry i on: the index of the entry it
\* stops at, 0 when it ends without one, -1 when it meets an entry whose
\* source is null and file.source.endsWith throws a TypeError.
RECURSIVE FindFile(_, _, _)
FindFile(files, sourceFile, i) ==
    IF i > Len(files) THEN 0
    ELSE IF files[i].source = NullString THEN -1
    ELSE IF MatchesSource(files[i], sourceFile) THEN i
    ELSE FindFile(files, sourceFile, i + 1)

\* notes || ''
NotesOrEmpty(notes) == IF notes = <<>> THEN "" ELSE notes[1]

\* The entry after file.status = newStatus and, with notes, file.notes.
UpdatedFile(file, newStatus, notes) ==
    IF notes # <<>>
    THEN [file EXCEPT !.status = newStatus, !.notes = notes[1]]
    ELSE [file EXCEPT !.status = newStatus]

\* plan.summary.completed = ...; plan.summary.remaining = ...
UpdatedSummary(sum, completed, remaining) ==
    [f \in DOMAIN sum \cup {"completed", "remaining"} |->
        IF f = "completed" THEN completed
        ELSE IF f = "remaining" THEN remaining
        ELSE sum[f]]

\* Mutant: the loop has no break and updates every matching entry.
UpdatedPlan_NoBreak(p, k, sourceFile, newStatus, notes, now) ==
    LET files == [j \in 1..Len(p.files) |->
                     IF j >= k /\ p.files[j].source # NullString
                           /\ MatchesSource(p.files[j], sourceFile)
                     THEN UpdatedFile(p.files[j], newStatus, notes)
                     ELSE p.files[j]]
        completed == CountDone(files)
        remaining == Len(files) - completed
    IN  [p EXCEPT
            !.files = files,
            !.log = Append(@, [time |-> ToISOString(now), file |-> files[k].source,
                               action |-> newStatus, notes |-> NotesOrEmpty(notes)]),
            !.summary = UpdatedSummary(@, completed, remaining),
            !.meta = [@ EXCEPT !.status = IF remaining = 0 THEN "completed"
                                          ELSE "in_progress"]]

\* Mutant: the summary is computed before the entry is updated.
UpdatedPlan_StaleSummary(p, k, sourceFile, newStatus, notes, now) ==
    LET files == [p.files EXCEPT ![k] = UpdatedFile(@, newStatus, notes)]
        completed == CountDone(p.files)
        remaining == Len(files) - completed
    IN  [p EXCEPT
            !.files = files,
            !.log = Append(@, [time |-> ToISOString(now), file |-> files[k].source,
                               action |-> newStatus, notes |-> NotesOrEmpty(notes)]),
            !.summary = UpdatedSummary(@, completed, remaining),
            !.meta = [@ EXCEPT !.status = IF remaining = 0 THEN "completed"
                                          ELSE "in_progress"]]

\* Mutant: the log entry is put before the existing entries.
UpdatedPlan_LogFirst(p, k, sourceFile, newStatus, notes, now) ==
    LET files == [p.files EXCEPT ![k] = UpdatedFile(@, newStatus, notes)]
        completed == CountDone(files)
        remaining == Len(files) - completed
    IN  [p EXCEPT
            !.files = files,
            !.log = <<[time |-> ToISOString(now), file |-> files[k].source,
                       action |-> newStatus, notes |-> NotesOrEmpty(notes)]>> \o @,
            !.summary = UpdatedSummary(@, completed, remaining),
            !.meta = [@ EXCEPT !.status = IF remaining = 0 THEN "completed"
                                          ELSE "in_progress"]]

\* The plan updatePlan writes back when the loop stopped at entry k.
UpdatedPlan(p, k, sourceFile, newStatus, notes, now) ==
    LET files == [p.files EXCEPT ![k] = UpdatedFile(@, newStatus, notes)]
        completed == CountDone(files)
        remaining == Len(files) - completed
    IN  [p EXCEPT
            !.files = files,
            !.log = Append(@, [time |-> ToISOString(now), file |-> files[k].source,
                               action |-> newStatus, notes |-> NotesOrEmpty(notes)]),
            !.summary = UpdatedSummary(@, completed, remaining),
            !.meta = [@ EXCEPT !.status = IF remaining = 0 THEN "completed"
                                          ELSE "in_progress"]]

(***************************************************************************)
(* Specification SpecUpdate: up to MaxUpdates runs of update-plan.js on a  *)
(* plan made by create-plan.js or by sync-plan.js.                         *)
(***************************************************************************)
\* A file in a directory ad/en of the source directory d/en: its path
\* d/en/ad/en/b.md ends with d/en/b.md, the path of b.md.
FileNested == <<"a", "d", "/", "e", "n", "/", "b", ".", "m", "d">>
UpdRelPaths == {FileA, FileNested, FileB}
\* findMarkdownFiles returns the relative paths sorted: a.md, ad/en/b.md,
\* b.md.
UpdSortedPaths(S) == SelectSeq(<<FileA, FileNested, FileB>>, LAMBDA f : f \in S)

UpdFileSet ==
    {[stat |-> TRUE, readable |-> TRUE, content |-> c, mtime |-> 1] :
        c \in {HeadingG, HeadingZ}}

\* <source_file>: a full path, a relative path, a suffix of every path and
\* a path of no entry.
UpdSourceArgs ==
    { PathJoin(DirPairs_EnZh[1], FileA), PathJoin(DirPairs_EnZh[1], FileB), FileB,
      <<"m", "d">>, <<"x", ".", "m", "d">> }

UpdStatuses == {"done", "in_progress"}

\* --notes: absent or one text.
UpdNotes == { <<>>, <<"n">> }

InitUpdate ==
    /\ pc = "start"
    /\ \E S \in SUBSET UpdRelPaths :
          sourceFiles = [f \in S |-> [stat |-> TRUE, readable |-> TRUE,
                                      content |-> HeadingG, mtime |-> 1]]
    /\ \E T \in SUBSET RelPaths : targetFiles \in [T -> UpdFileSet]
    /\ sourceDir = DirPairs_EnZh[1] /\ targetDir = DirPairs_EnZh[2]
    /\ \/ /\ DOMAIN sourceFiles # {}
          /\ plan = createPlan(UpdSortedPaths(DOMAIN sourceFiles), 0)
       \/ plan = createSyncPlan(UpdSortedPaths(DOMAIN sourceFiles \cup DOMAIN targetFiles), 0)
    /\ calls = 0 /\ call = Null /\ outcome = "none"
    /\ todo = <<>> /\ results = <<>> /\ exitCode = -1
    /\ DiffIdle /\ HunkIdle /\ SecIdle /\ ValIdle /\ SyncIdle /\ AffIdle
    /\ GitIdle /\ CmpIdle

\* One run of update-plan.js <plan_file> <source_file> <status> [--notes n];
\* the clock shows the number of the run.
UpdatePlan ==
    /\ pc = "start"
    /\ calls < MaxUpdates
    /\ \E sourceFile \in UpdSourceArgs, newStatus \in UpdStatuses, notes \in UpdNotes :
          LET k == FindFile(plan.files, sourceFile, 1)
          IN  /\ call' = [sourceFile |-> sourceFile, status |-> newStatus,
                          notes |-> notes]
              /\ IF k = -1
                 THEN /\ outcome' = "TypeError"
                      /\ exitCode' \in {0, 1}
                      /\ plan' = plan
                 ELSE IF k = 0
                 THEN /\ outcome' = "not_found"
                      /\ exitCode' = 1
                      /\ plan' = plan
                 ELSE /\ outcome' = "updated"
                      /\ exitCode' = 0
                      /\ plan' = UpdatedPlan(plan, k, sourceFile, newStatus, notes,
                                             calls + 1)
    /\ calls' = calls + 1
    /\ UNCHANGED <<pc, sourceFiles, targetFiles, sourceDir, targetDir, todo, results,
                   diffVars, hunkVars, secVars, valVars, syncVars, affVars,
                   gitVars, cmpVars>>

NextUpdate == UpdatePlan

SpecUpdate == InitUpdate /\ [][NextUpdate]_vars

(***************************************************************************)
(* Claims about updatePlan.                                                *)
(***************************************************************************)
\* The entry before and after the step differ at most in status and notes,
\* the status is the one given, the notes are the ones given or the old.
OnlyStatusAndNotesChange(old, new) ==
    /\ DOMAIN new = DOMAIN old
    /\ \A f \in DOMAIN old \ {"status", "notes"} : new[f] = old[f]
    /\ new.status = call'.status
    /\ new.notes = IF call'.notes = <<>> THEN old.notes ELSE call'.notes[1]

\* C15: a successful run of updatePlan leaves the number and order of the
\* file entries as they are and changes one entry, one whose source is or
\* ends with the given source file, in its status and, when notes are
\* given, its notes only; every other entry and every other field of that
\* entry stay the same.
C15_UpdateFrame ==
    [][(outcome' = "updated" /\ calls' = calls + 1) =>
          /\ Len(plan'.files) = Len(plan.files)
          /\ \E k \in 1..Len(plan.files) :
                /\ MatchesSource(plan.files[k], call'.sourceFile)
                /\ OnlyStatusAndNotesChange(plan.files[k], plan'.files[k])
                /\ \A j \in 1..Len(plan.files) :
                      j # k => plan'.files[j] = plan.files[j]]_vars

\* C15 witness: a plan of sync-plan.js with two entries that carry hashes;
\* update-plan.js <plan> md in_progress --notes n has updated the first.
C15_Witness ==
    /\ outcome = "updated"
    /\ call.sourceFile = <<"m", "d">> /\ call.status = "in_progress"
    /\ call.notes = <<"n">>
    /\ Len(plan.files) = 2
    /\ "source_hash" \in DOMAIN plan.files[1]
    /\ plan.files[1].status = "in_progress" /\ plan.files[1].notes = "n"
    /\ plan.files[2].status \in {"done", "needs_update"}
    /\ Len(plan.log) = 1

\* The plan was made by create-plan.js.
IsCreatePlan == plan # Null /\ "type" \notin DOMAIN plan.meta

\* C16: a plan made by create-plan has, before and after every successful
\* run of updatePlan, summary.completed = the number of entries with status
\* done, summary.completed + summary.remaining = the number of entries, and
\* meta.status = completed exactly when every entry is done; after a
\* successful run meta.status is in_progress otherwise.
C16_SummaryInvariant ==
    IsCreatePlan =>
        LET done == {k \in 1..Len(plan.files) : plan.files[k].status = "done"}
        IN  /\ plan.summary.completed = Cardinality(done)
            /\ plan.summary.completed + plan.summary.remaining = Len(plan.files)
            /\ plan.meta.status = "completed" <=> Cardinality(done) = Len(plan.files)
            /\ plan.log # <<>> => plan.meta.status \in {"completed", "in_progress"}

\* C16 witness: a plan of create-plan with two entries after two successful
\* runs, the second of which made the last entry done: completed.
C16_Witness ==
    /\ IsCreatePlan
    /\ Len(plan.files) = 2 /\ Len(plan.log) = 2
    /\ plan.log[1].action = "in_progress" /\ plan.log[2].action = "done"
    /\ plan.summary.completed = 2 /\ plan.summary.remaining = 0
    /\ plan.meta.status = "completed"

(***************************************************************************)
(* Claims about validate.js --dir with missing target files.               *)
(***************************************************************************)
\* The result stored for a file whose target is missing.
IsTargetMissingResult(r, relPath) ==
    /\ r.passed = FALSE
    /\ Len(r.errors) = 1
    /\ r.errors[1] = [kind |-> "Target file missing",
                      file |-> PathJoin(targetDir, relPath)]

\* C17: in directory mode a source file whose target file is missing gets
\* a result with passed = false and the single error 'Target file missing';
\* the other source files are still validated, each against its target;
\* and the exit status is 1 exactly when some file's result has
\* passed = false, 0 otherwise.
C17_MissingTarget ==
    /\ \A k \in 1..Len(results) :
          LET f == results[k].file
          IN  IF f \in DOMAIN targetFiles
              THEN results[k].result =
                      validateFiles(PathJoin(sourceDir, f), sourceFiles[f],
                                    PathJoin(targetDir, f), targetFiles[f],
                                    OrElse(sourceLocale, detectLocaleFromPath(sourceDir)),
                                    OrElse(targetLocale, detectLocaleFromPath(targetDir)))
              ELSE IsTargetMissingResult(results[k].result, f)
    /\ pc = "done" =>
          /\ Len(results) = Cardinality(DOMAIN sourceFiles)
          /\ {results[k].file : k \in 1..Len(results)} = DOMAIN sourceFiles
          /\ exitCode \in {0, 1}
          /\ exitCode = 1 <=> \E k \in 1..Len(results) : ~results[k].result.passed

\* C17 witness: a.md has no target, b.md has one and passes; both have a
\* result and the exit status is 1.
C17_Witness ==
    /\ pc = "done"
    /\ Len(results) = 2
    /\ results[1].file = FileA /\ FileA \notin DOMAIN targetFiles
    /\ IsTargetMissingResult(results[1].result, FileA)
    /\ results[2].file = FileB /\ FileB \in DOMAIN targetFiles
    /\ results[2].result.passed
    /\ exitCode = 1

(***************************************************************************)
(* git-diff-sync: gitExec, getGitDiff, readFile, createGitDiffSyncPlan,    *)
(* writePlan and the catch of main.                                        *)
(***************************************************************************)
\* What execAsync gives for one git command: the output, or the rejection
\* with its message.
GitOk(stdout) == [ok |-> TRUE, stdout |-> stdout]
GitFails(message) == [ok |-> FALSE, message |-> message]

\* The command lines: git rev-parse --git-dir and
\* git diff <gitRef> -- "<filePath>".
RevParseArgs == <<"rev-parse", "--git-dir">>
DiffArgs(gitRef, filePath) == <<"diff", gitRef, "--", filePath>>

\* new Error(`Git command failed: git ${args}\n${error.message}`)
GitCommandFailed(args, message) ==
    [text |-> "Git command failed: git", command |-> args, cause |-> message]

\* new Error('Not in a Git repository. Please run this command from within
\* a Git repository.')
NotInGitRepository ==
    [text |-> "Not in a Git repository. Please run this command from within a Git repository."]

\* new Error(`Source file not found: ${sourceFile}`)
SourceFileNotFound(sourceFile) ==
    [text |-> "Source file not found:", file |-> sourceFile]

\* yaml.dump meeting a value that is undefined, in the versions of js-yaml
\* that reject it.
YamlDumpFailed == [text |-> "unacceptable kind of an object to dump [object Undefined]"]

\* Mutant: gitExec swallows the failure and returns empty output.
gitExec_Swallow(args, answer) ==
    IF answer.ok
    THEN [threw |-> FALSE, stdout |-> Trim(answer.stdout)]
    ELSE [threw |-> FALSE, stdout |-> <<>>]

\* gitExec: the trimmed output, or the Error it throws.
gitExec(args, answer) ==
    IF answer.ok
    THEN [threw |-> FALSE, stdout |-> Trim(answer.stdout)]
    ELSE [threw |-> TRUE, error |-> GitCommandFailed(args, answer.message)]

\* !value for what readFile returns: null, or the text, empty or not.
IsFalsyText(text) == text = NullString \/ text = <<>>

\* generateExecutionInstructions: operation_summary.
OperationSummary(hs) ==
    [op \in {"add", "delete", "modify", "format"} |->
        Cardinality({k \in 1..Len(hs) : hs[k].operation = op})]

\* h.hunk_index of a hunk as findAffectedSections stores it.
HunkIndexOf(h) == IF "hunk_index" \in DOMAIN h THEN h.hunk_index ELSE Undefined

\* The plan of a run that found no changes.
NoChangesPlan(sourceFile, targetFile, gitRef, now) ==
    [meta |-> [created |-> ToISOString(now), source_file |-> sourceFile,
               target_file |-> targetFile, git_ref |-> gitRef,
               type |-> "git-diff-sync", format_version |-> "2.0",
               status |-> "completed"],
     summary |-> [has_changes |-> FALSE, message |-> "No changes detected"],
     changes |-> <<>>,
     affected_sections |-> <<>>,
     execution |-> Null]

\* The plan of a run that found changes.
ChangesPlan(sourceFile, targetFile, gitRef, hs, aff, targetContent, now) ==
    [meta |-> [created |-> ToISOString(now), source_file |-> sourceFile,
               target_file |-> targetFile, git_ref |-> gitRef,
               type |-> "git-diff-sync", format_version |-> "2.0",
               status |-> "pending"],
     summary |-> [has_changes |-> TRUE, total_hunks |-> Len(hs),
                  affected_sections |-> Len(aff),
                  target_exists |-> ~IsFalsyText(targetContent),
                  operations |-> OperationSummary(hs)],
     changes |-> [k \in 1..Len(hs) |->
                     [hunk_index |-> k - 1,
                      operation |-> hs[k].operation,
                      description |-> hs[k].description,
                      line_range |-> hs[k].line_range,
                      old_start |-> hs[k].old_start, old_count |-> hs[k].old_count,
                      new_start |-> hs[k].new_start, new_count |-> hs[k].new_count,
                      deleted_lines |-> hs[k].deleted_lines,
                      added_lines |-> hs[k].added_lines,
                      context_lines |-> hs[k].context_lines,
                      header |-> hs[k].header]],
     affected_sections |->
         [k \in 1..Len(aff) |->
             [section_title |-> aff[k].section_title,
              operation_types |-> aff[k].operation_types,
              total_changes |-> aff[k].total_changes,
              hunks |-> [j \in 1..Len(aff[k].hunks) |->
                            [hunk_index |-> HunkIndexOf(aff[k].hunks[j]),
                             operation |-> aff[k].hunks[j].operation,
                             description |-> aff[k].hunks[j].description]]]],
     execution |-> [operation_summary |-> OperationSummary(hs)]]

\* The plan holds a value that is undefined.
HasUndefinedValue(p) ==
    \E k \in 1..Len(p.affected_sections) :
        \E j \in 1..Len(p.affected_sections[k].hunks) :
            p.affected_sections[k].hunks[j].hunk_index = Undefined

(***************************************************************************)
(* Specification SpecGitSync: one run of git-diff-sync.js.                 *)
(***************************************************************************)
GitSourceFile == "docs/en/guide.md"
GitTargetFile == "docs/zh/guide.md"
GitRefs == {"HEAD", "main"}
GitMessages == {"Command failed", "spawn git ENOENT"}

GitDiffOutputs ==
    { <<>>, <<" ", "\n">>,
      Join(<<HeaderPlain, <<"+", "x">>>>, "\n") \o <<"\n">>,
      Join(<<HeaderPlain, <<"-", "a">>, HeaderCounts, <<"+", " ", "a">>>>, "\n"),
      Join(<<<<"d", "i", "f", "f", " ", "x">>, HeaderPlain, <<"-", "a">>, <<"+", "b">>>>, "\n") }

GitFileContents == { NullString, <<>>, HeadingG, Join(<<<<"t">>, HeadingG, HeadingZ>>, "\n") }

InitGitSync ==
    /\ pc = "start"
    /\ \E rp \in {GitOk(<<".", "g", "i", "t", "\n">>)} \cup {GitFails(m) : m \in GitMessages},
          df \in {GitOk(o) : o \in GitDiffOutputs} \cup {GitFails(m) : m \in GitMessages},
          ref \in GitRefs, sc \in GitFileContents, tc \in GitFileContents :
          repo = [revParse |-> rp, diff |-> df, gitRef |-> ref,
                  sourceContent |-> sc, targetContent |-> tc]
    /\ error = Null
    /\ plan = Null
    /\ exitCode = -1
    /\ diffOutput = <<>> /\ hunks = <<>>
    /\ content = <<>> /\ sections = <<>>
    /\ affected = <<>>
    /\ sourceFiles = <<>> /\ targetFiles = <<>> /\ sourceDir = <<>> /\ targetDir = <<>>
    /\ todo = <<>> /\ results = <<>>
    /\ HunkIdle /\ ValIdle /\ SyncIdle /\ UpdIdle /\ CmpIdle

\* try { await gitExec('rev-parse --git-dir', cwd) } catch { throw ... }
CheckRepository ==
    /\ pc = "start"
    /\ LET r == gitExec(RevParseArgs, repo.revParse)
       IN  IF r.threw
           THEN /\ error' = NotInGitRepository
                /\ exitCode' = 1
                /\ pc' = "done"
           ELSE /\ pc' = "diff"
                /\ UNCHANGED <<error, exitCode>>
    /\ UNCHANGED <<repo, plan, diffVars, secVars, affVars, hunkVars, valVars, syncVars,
                   updVars, sourceFiles, targetFiles, sourceDir, targetDir, todo,
                   results, cmpVars>>

\* const diffOutput = await getGitDiff(sourceFile, gitRef, cwd), and the
\* branch for no changes.
GetGitDiff ==
    /\ pc = "diff"
    /\ LET r == gitExec(DiffArgs(repo.gitRef, GitSourceFile), repo.diff)
       IN  IF r.threw
           THEN /\ error' = r.error
                /\ exitCode' = 1
                /\ pc' = "done"
                /\ UNCHANGED <<plan, diffVars>>
           ELSE IF r.stdout = <<>>
           THEN /\ plan' = NoChangesPlan(GitSourceFile, GitTargetFile, repo.gitRef, 0)
                /\ exitCode' = 0
                /\ pc' = "done"
                /\ UNCHANGED <<error, diffVars>>
           ELSE /\ diffOutput' = r.stdout
                /\ hunks' = parseGitDiffDetailed(r.stdout)
                /\ pc' = "read"
                /\ UNCHANGED <<error, exitCode, plan>>
    /\ UNCHANGED <<repo, secVars, affVars, hunkVars, valVars, syncVars,
                   updVars, sourceFiles, targetFiles, sourceDir, targetDir, todo,
                   results, cmpVars>>

\* const newContent = await readFile(sourceFile), the sections and the
\* affected sections.
ReadSource ==
    /\ pc = "read"
    /\ IF IsFalsyText(repo.sourceContent)
       THEN /\ error' = SourceFileNotFound(GitSourceFile)
            /\ exitCode' = 1
            /\ pc' = "done"
            /\ UNCHANGED <<secVars, affVars>>
       ELSE /\ content' = repo.sourceContent
            /\ sections' = parseMarkdownSections(repo.sourceContent)
            /\ affected' = findAffectedSections(hunks, sections')
            /\ pc' = "write"
            /\ UNCHANGED <<error, exitCode>>
    /\ UNCHANGED <<repo, plan, diffVars, hunkVars, valVars, syncVars,
                   updVars, sourceFiles, targetFiles, sourceDir, targetDir, todo,
                   results, cmpVars>>

\* The plan object and writePlan.  yaml.dump of a plan with an undefined
\* value drops the key or throws, by the version of js-yaml.
WriteGitPlan ==
    /\ pc = "write"
    /\ LET p == ChangesPlan(GitSourceFile, GitTargetFile, repo.gitRef, hunks, affected,
                            repo.targetContent, 0)
       IN  \/ /\ plan' = p
              /\ exitCode' = 0
              /\ UNCHANGED error
           \/ /\ HasUndefinedValue(p)
              /\ error' = YamlDumpFailed
              /\ exitCode' = 1
              /\ UNCHANGED plan
    /\ pc' = "done"
    /\ UNCHANGED <<repo, diffVars, secVars, affVars, hunkVars, valVars, syncVars,
                   updVars, sourceFiles, targetFiles, sourceDir, targetDir, todo,
                   results, cmpVars>>

NextGitSync == CheckRepository \/ GetGitDiff \/ ReadSource \/ WriteGitPlan

SpecGitSync == InitGitSync /\ [][NextGitSync]_vars

(***************************************************************************)
(* Claims about failing git commands.                                      *)
(***************************************************************************)
\* The run is over and a git command it ran has failed.
RepositoryCheckFailed == pc = "done" /\ ~repo.revParse.ok
DiffFailed == pc = "done" /\ repo.revParse.ok /\ ~repo.diff.ok

\* The reported error names the command and carries the message.
NamesCommandAndCause(args, message) ==
    /\ error # Null
    /\ "command" \in DOMAIN error /\ error.command = args
    /\ "cause" \in DOMAIN error /\ error.cause = message

\* C18 as stated: whenever a git command of the run fails, the repository
\* check included, no plan is written, the exit status is 1 and the
\* reported error names the git command and carries the underlying message.
C18_GitFailureNamesCommand ==
    /\ RepositoryCheckFailed =>
          /\ plan = Null /\ exitCode = 1
          /\ NamesCommandAndCause(RevParseArgs, repo.revParse.message)
    /\ DiffFailed =>
          /\ plan = Null /\ exitCode = 1
          /\ NamesCommandAndCause(DiffArgs(repo.gitRef, GitSourceFile), repo.diff.message)

\* C18 amended: whenever a git command of the run fails, no plan is written
\* and the exit status is 1; a failing git diff is reported with the
\* command and the underlying message, a failing repository check with the
\* fixed text 'Not in a Git repository. ...', which has neither.
C18_GitFailureIsFatal ==
    /\ RepositoryCheckFailed =>
          /\ plan = Null /\ exitCode = 1
          /\ error = NotInGitRepository
          /\ ~NamesCommandAndCause(RevParseArgs, repo.revParse.message)
    /\ DiffFailed =>
          /\ plan = Null /\ exitCode = 1
          /\ error = GitCommandFailed(DiffArgs(repo.gitRef, GitSourceFile),
                                      repo.diff.message)
          /\ NamesCommandAndCause(DiffArgs(repo.gitRef, GitSourceFile), repo.diff.message)

\* C18 witness: the repository check passed and git diff main failed with
\* 'spawn git ENOENT'.
C18_Witness ==
    /\ DiffFailed
    /\ repo.gitRef = "main" /\ repo.diff.message = "spawn git ENOENT"
    /\ exitCode = 1 /\ plan = Null
    /\ error.cause = "spawn git ENOENT"

\* C18 second witness: the repository check itself failed.
C18_WitnessRepositoryCheck ==
    /\ RepositoryCheckFailed
    /\ error = NotInGitRepository /\ exitCode = 1 /\ plan = Null

(***************************************************************************)
(* Claims about metadata lines inside a hunk.                              *)
(***************************************************************************)
\* The loop body as the claim describes it: inside an open hunk a metadata
\* line closes the hunk, whatever its first character; every other line is
\* handled as the code handles it.
ClaimedParseDiffLine(st, line) ==
    IF ~IsHunkHeader(line) /\ st.inHunk /\ st.currentHunk # Null /\ IsDiffMetadata(line)
    THEN [hunks |-> Append(st.hunks, st.currentHunk),
          currentHunk |-> Null,
          inHunk |-> FALSE]
    ELSE ParseDiffLine(st, line)

RECURSIVE ClaimedParseDiffLines(_, _, _)
ClaimedParseDiffLines(st, lines, i) ==
    IF i > Len(lines) THEN st
    ELSE ClaimedParseDiffLines(ClaimedParseDiffLine(st, lines[i]), lines, i + 1)

ClaimedHunks(text) ==
    LET end == ClaimedParseDiffLines([hunks |-> <<>>, currentHunk |-> Null,
                                      inHunk |-> FALSE],
                                     Split(text, "\n"), 1)
        all == IF end.currentHunk # Null /\ end.inHunk
               THEN Append(end.hunks, end.currentHunk) ELSE end.hunks
    IN  [k \in 1..Len(all) |-> analyzeHunkOperation(all[k])]

\* C19 as stated: inside an open hunk a line that starts with @@ (and is
\* no hunk header), diff, index, --- or +++ closes the hunk without
\* starting a new one: the hunk is emitted, the line is recorded in neither
\* deleted_lines nor added_lines, and the lines after it are ignored until
\* the next hunk header.
C19_MetadataClosesHunk ==
    pc = "done" => hunks = ClaimedHunks(diffOutput)

\* C19 witness: the hunk header, then --- and + a: the line --- is kept as
\* the deleted line -- and the hunk stays open for the added line.
C19_Witness ==
    /\ pc = "done"
    /\ diffOutput = Join(<<HeaderPlain, <<"-", "-", "-">>, <<"+", " ", "a">>>>, "\n")
    /\ Len(hunks) = 1
    /\ hunks[1].deleted_lines = << <<"-", "-">> >>
    /\ hunks[1].added_lines = << <<" ", "a">> >>
    /\ ClaimedHunks(diffOutput)[1].deleted_lines = <<>>
    /\ ClaimedHunks(diffOutput)[1].added_lines = <<>>

(***************************************************************************)
(* diff-sections.js: extractSections and compareSections.  An object is    *)
(* the sequence of its [key, content] pairs in insertion order.            *)
(***************************************************************************)
IntroKey == <<"_", "_", "i", "n", "t", "r", "o", "_", "_">>

\* Mutant: a key that is there keeps its content.
SetSection_FirstWins(secs, key, text) ==
    IF \E k \in 1..Len(secs) : secs[k].key = key
    THEN secs
    ELSE Append(secs, [key |-> key, content |-> text])

\* sections[key] = content: a new key goes to the end, a key that is there
\* keeps its place and gets the new content.
SetSection(secs, key, text) ==
    IF \E k \in 1..Len(secs) : secs[k].key = key
    THEN [k \in 1..Len(secs) |->
             IF secs[k].key = key THEN [key |-> key, content |-> text] ELSE secs[k]]
    ELSE Append(secs, [key |-> key, content |-> text])

\* `${'#'.repeat(level)} ${title}`
HeadingKey(headingMatch) == headingMatch.hashes \o <<" ">> \o headingMatch.text

\* One iteration of the loop of extractSections: st is [sections,
\* currentHeading, currentContent].
ExtractLine(st, line) ==
    LET headingMatch == HeadingMatchAt(line, 1, FALSE)
    IN  IF headingMatch # Null
        THEN [sections |-> SetSection(st.sections, st.currentHeading,
                                      Join(st.currentContent, "\n")),
              currentHeading |-> HeadingKey(headingMatch),
              currentContent |-> <<line>>]
        ELSE [st EXCEPT !.currentContent = Append(@, line)]

RECURSIVE ExtractLines(_, _, _)
ExtractLines(st, lines, i) ==
    IF i > Len(lines) THEN st
    ELSE ExtractLines(ExtractLine(st, lines[i]), lines, i + 1)

extractSections(text) ==
    LET end == ExtractLines([sections |-> <<>>, currentHeading |-> IntroKey,
                             currentContent |-> <<>>],
                            Split(text, "\n"), 1)
    IN  SetSection(end.sections, end.currentHeading, Join(end.currentContent, "\n"))

HasKey(secs, key) == \E k \in 1..Len(secs) : secs[k].key = key
SectionOf(secs, key) == secs[CHOOSE k \in 1..Len(secs) : secs[k].key = key].content
KeysOf(secs) == [k \in 1..Len(secs) |-> secs[k].key]

\* Mutant: the contents are compared as they are, not trimmed.
compareSections_NoTrim(old, new) ==
    LET oldSections == extractSections(old)
        newSections == extractSections(new)
        oldKeys == KeysOf(oldSections)
        newKeys == KeysOf(newSections)
    IN  [added |-> SelectSeq(newKeys, LAMBDA k : ~HasKey(oldSections, k)),
         removed |-> SelectSeq(oldKeys, LAMBDA k : ~HasKey(newSections, k)),
         modified |-> SelectSeq(oldKeys, LAMBDA k :
                         /\ HasKey(newSections, k)
                         /\ SectionOf(oldSections, k) # SectionOf(newSections, k)),
         unchanged |-> SelectSeq(oldKeys, LAMBDA k :
                         /\ HasKey(newSections, k)
                         /\ SectionOf(oldSections, k) = SectionOf(newSections, k))]

compareSections(old, new) ==
    LET oldSections == extractSections(old)
        newSections == extractSections(new)
        oldKeys == KeysOf(oldSections)
        newKeys == KeysOf(newSections)
    IN  [added |-> SelectSeq(newKeys, LAMBDA k : ~HasKey(oldSections, k)),
         removed |-> SelectSeq(oldKeys, LAMBDA k : ~HasKey(newSections, k)),
         modified |-> SelectSeq(oldKeys, LAMBDA k :
                         /\ HasKey(newSections, k)
                         /\ Trim(SectionOf(oldSections, k))
                               # Trim(SectionOf(newSections, k))),
         unchanged |-> SelectSeq(oldKeys, LAMBDA k :
                         /\ HasKey(newSections, k)
                         /\ Trim(SectionOf(oldSections, k))
                               = Trim(SectionOf(newSections, k)))]

(***************************************************************************)
(* Specification SpecCompare: compareSections applied to two documents.    *)
(***************************************************************************)
CmpLineSet == { <<"#", " ", "A">>, <<"#", " ", "B">>, <<"x">>, <<" ">> }

CmpDocs == {Join(ls, "\n") : ls \in SeqsUpTo(CmpLineSet, MaxCmpLines)}

InitCompare ==
    /\ pc = "start"
    /\ oldContent \in CmpDocs
    /\ newContent \in CmpDocs
    /\ compared = Null
    /\ DiffIdle /\ HunkIdle /\ SecIdle /\ ValIdle /\ DirIdle
    /\ SyncIdle /\ PlanIdle /\ AffIdle /\ UpdIdle /\ GitIdle

CompareSections ==
    /\ pc = "start"
    /\ compared' = compareSections(oldContent, newContent)
    /\ pc' = "done"
    /\ UNCHANGED <<oldContent, newContent, diffVars, hunkVars, secVars, valVars,
                   dirVars, syncVars, planVars, affVars, updVars, gitVars>>

NextCompare == CompareSections

SpecCompare == InitCompare /\ [][NextCompare]_vars

(***************************************************************************)
(* Claims about compareSections.                                           *)
(***************************************************************************)
\* The key of line i of the document, or Null for a line that is no
\* heading.
LineKey(lines, i) ==
    LET m == HeadingMatchAt(lines[i], 1, FALSE)
    IN  IF m = Null THEN Null ELSE [key |-> HeadingKey(m)]

\* The keys of a document: __intro__ and the heading lines, each written
\* as its hashes, one space and its title.
ClaimedKeys(text) ==
    LET lines == Split(text, "\n")
    IN  {IntroKey} \cup
        {HeadingKey(HeadingMatchAt(lines[i], 1, FALSE)) :
            i \in {j \in 1..Len(lines) : LineKey(lines, j) # Null}}

\* The content kept for a key: the lines from the last heading line with
\* that key to the line before the next heading line; for __intro__ the
\* lines before the first heading line.
ClaimedContent(text, key) ==
    LET lines == Split(text, "\n")
        heads == {j \in 1..Len(lines) : LineKey(lines, j) # Null}
        NextHead(i) == IF \E j \in heads : j > i
                       THEN CHOOSE j \in heads : j > i /\ \A l \in heads : l > i => j <= l
                       ELSE Len(lines) + 1
    IN  IF key = IntroKey
        THEN Join(SubSeq(lines, 1, NextHead(0) - 1), "\n")
        ELSE LET mine == {j \in heads : LineKey(lines, j).key = key}
                 last == CHOOSE j \in mine : \A l \in mine : l <= j
             IN  Join(SubSeq(lines, last, NextHead(last) - 1), "\n")

ListSet(seq) == {seq[k] : k \in 1..Len(seq)}
NoRepeats(seq) == Cardinality(ListSet(seq)) = Len(seq)

\* C20: compareSections returns four lists added, removed, modified and
\* unchanged that are pairwise disjoint, hold no key twice and together
\* hold exactly oldKeys \cup newKeys; added = newKeys \ oldKeys,
\* removed = oldKeys \ newKeys, and a key of both documents is in modified
\* when the trimmed contents differ and in unchanged when they are equal.
C20_ComparePartition ==
    pc = "done" =>
        LET oldKeys == ClaimedKeys(oldContent)
            newKeys == ClaimedKeys(newContent)
            added == ListSet(compared.added)
            removed == ListSet(compared.removed)
            modified == ListSet(compared.modified)
            unchanged == ListSet(compared.unchanged)
        IN  /\ NoRepeats(compared.added) /\ NoRepeats(compared.removed)
            /\ NoRepeats(compared.modified) /\ NoRepeats(compared.unchanged)
            /\ added \cap removed = {} /\ added \cap modified = {}
            /\ added \cap unchanged = {} /\ removed \cap modified = {}
            /\ removed \cap unchanged = {} /\ modified \cap unchanged = {}
            /\ added \cup removed \cup modified \cup unchanged = oldKeys \cup newKeys
            /\ added = newKeys \ oldKeys
            /\ removed = oldKeys \ newKeys
            /\ modified = {k \in oldKeys \cap newKeys :
                              Trim(ClaimedContent(oldContent, k))
                                 # Trim(ClaimedContent(newContent, k))}
            /\ unchanged = {k \in oldKeys \cap newKeys :
                               Trim(ClaimedContent(oldContent, k))
                                  = Trim(ClaimedContent(newContent, k))}

\* C20 witness: the old document is a blank line and the section # A, the
\* new one the section # B: # B is added, # A removed, and __intro__, " "
\* before and empty after, is unchanged.
C20_Witness ==
    /\ pc = "done"
    /\ oldContent = Join(<<<<" ">>, <<"#", " ", "A">>>>, "\n")
    /\ newContent = <<"#", " ", "B">>
    /\ compared.added = << <<"#", " ", "B">> >>
    /\ compared.removed = << <<"#", " ", "A">> >>
    /\ compared.modified = <<>>
    /\ compared.unchanged = <<IntroKey>>

(***************************************************************************)
(* Claims about the counts of a hunk header.                               *)
(***************************************************************************)
\* The text of one side of a header, "2,3" or "1": from position `from`
\* to the next space.
HeaderSide(header, from) ==
    SubSeq(header, from, IndexOfFrom(header, <<" ">>, from) - 1)

OldSide(header) == HeaderSide(header, 5)
NewSide(header) == HeaderSide(header, IndexOfFrom(header, <<" ", "+">>, 5) + 2)

\* The count a side stands for: the number after the comma, 1 without one.
ClaimedCount(side) ==
    LET comma == IndexOfFrom(side, <<",">>, 1)
    IN  IF comma = 0 THEN 1 ELSE ParseInt(SubSeq(side, comma + 1, Len(side)))

\* C21: old_count (new_count) of a hunk is 1 when its header has no
\* comma-count for that side and the written number when it has one, a
\* written 0 included.
C21_HeaderCounts ==
    pc = "done" =>
        \A k \in 1..Len(hunks) :
            /\ hunks[k].old_count = ClaimedCount(OldSide(hunks[k].header))
            /\ hunks[k].new_count = ClaimedCount(NewSide(hunks[k].header))

\* C21 witness: @@ -1 +1 @@ gives 1 and 1, @@ -2,3 +4,0 @@ f gives 3 and 0.
C21_Witness ==
    /\ pc = "done"
    /\ Len(hunks) = 2
    /\ hunks[1].header = HeaderPlain
    /\ hunks[1].old_count = 1 /\ hunks[1].new_count = 1
    /\ hunks[2].header = HeaderCounts
    /\ hunks[2].old_count = 3 /\ hunks[2].new_count = 0

(***************************************************************************)
(* Claims about the log of the plan.                                       *)
(***************************************************************************)
\* The first entry of the plan whose source is or ends with the text.
FirstMatching(files, sourceFile) ==
    CHOOSE k \in 1..Len(files) :
        /\ MatchesSource(files[k], sourceFile)
        /\ \A j \in 1..(k - 1) : ~MatchesSource(files[j], sourceFile)

\* C22: the log is append-only under updatePlan.  A successful run leaves
\* the entries of the log as they are and in order and puts one entry
\* after them, with file = the source of the matched entry, action = the
\* new status and notes = the given notes or the empty string; a run that
\* fails leaves the log alone.  So the log grows by one per successful
\* run, in the order of the runs.
C22_LogAppendOnly ==
    /\ [][calls' = calls + 1 =>
            IF outcome' = "updated"
            THEN /\ Len(plan'.log) = Len(plan.log) + 1
                 /\ SubSeq(plan'.log, 1, Len(plan.log)) = plan.log
                 /\ LET new == plan'.log[Len(plan'.log)]
                    IN  /\ new.file =
                              plan.files[FirstMatching(plan.files, call'.sourceFile)].source
                        /\ new.action = call'.status
                        /\ new.notes = IF call'.notes = <<>> THEN ""
                                       ELSE call'.notes[1]
                        /\ new.time = ToISOString(calls')
            ELSE plan'.log = plan.log]_vars
    /\ [](plan # Null =>
            /\ Len(plan.log) <= calls
            /\ \A i, j \in 1..Len(plan.log) :
                  i < j => plan.log[i].time.iso < plan.log[j].time.iso)

\* C22 witness: two successful runs, the first with notes and the second
\* without: two log entries in the order of the runs.
C22_Witness ==
    /\ calls = 2 /\ outcome = "updated"
    /\ Len(plan.log) = 2
    /\ plan.log[1].notes = "n" /\ plan.log[1].action = "in_progress"
    /\ plan.log[2].notes = "" /\ plan.log[2].action = "done"
    /\ plan.log[1].time = ToISOString(1) /\ plan.log[2].time = ToISOString(2)

(***************************************************************************)
(* Claims about sections with the same heading.                            *)
(***************************************************************************)
\* The heading lines of the document whose key is `key`, in order.
HeadLinesOf(text, key) ==
    LET lines == Split(text, "\n")
    IN  {j \in 1..Len(lines) : LineKey(lines, j) # Null /\ LineKey(lines, j).key = key}

\* The section that starts at heading line i: the lines up to the one
\* before the next heading line.
SectionAt(text, i) ==
    LET lines == Split(text, "\n")
        later == {j \in (i + 1)..Len(lines) : LineKey(lines, j) # Null}
        stop == IF later = {} THEN Len(lines) + 1
                ELSE CHOOSE j \in later : \A l \in later : j <= l
    IN  Join(SubSeq(lines, i, stop - 1), "\n")

LastOf(S) == CHOOSE j \in S : \A l \in S : l <= j

\* The key has several sections in one of the documents, and the
\* documents differ in one that is not the last.
EarlierDuplicateChanged(key) ==
    LET o == HeadLinesOf(oldContent, key)
        n == HeadLinesOf(newContent, key)
    IN  /\ o # {} /\ n # {}
        /\ Cardinality(o) > 1 \/ Cardinality(n) > 1
        /\ {Trim(SectionAt(oldContent, i)) : i \in o \ {LastOf(o)}}
              # {Trim(SectionAt(newContent, i)) : i \in n \ {LastOf(n)}}

\* C23: of several sections with the same heading only the last one's
\* content is kept: a heading of both documents is unchanged exactly when
\* the last sections with that heading are equal after trimming, so a
\* change in an earlier section with the same heading is reported as
\* unchanged.
C23_LastDuplicateWins ==
    pc = "done" =>
        \A key \in ListSet(compared.modified) \cup ListSet(compared.unchanged) :
            key # IntroKey =>
                LET o == HeadLinesOf(oldContent, key)
                    n == HeadLinesOf(newContent, key)
                    same == Trim(SectionAt(oldContent, LastOf(o)))
                               = Trim(SectionAt(newContent, LastOf(n)))
                IN  /\ o # {} /\ n # {}
                    /\ same => key \in ListSet(compared.unchanged)
                    /\ ~same => key \in ListSet(compared.modified)

\* C23 witness: the old document has # A with the line x and then # A
\* again, the new one # A twice without it: # A is unchanged.
C23_Witness ==
    /\ pc = "done"
    /\ oldContent = Join(<<<<"#", " ", "A">>, <<"x">>, <<"#", " ", "A">>>>, "\n")
    /\ newContent = Join(<<<<"#", " ", "A">>, <<"#", " ", "A">>>>, "\n")
    /\ EarlierDuplicateChanged(<<"#", " ", "A">>)
    /\ compared.unchanged = <<IntroKey, <<"#", " ", "A">>>>
    /\ compared.modified = <<>>

(***************************************************************************)
(* Claims about the line numbers of hunks and sections.                    *)
(***************************************************************************)
\* The title of the section that holds line n of the document, lines
\* counted from 1: the text of the nearest heading line at or before line
\* n, (untitled) when there is none.
RECURSIVE LineTitle(_, _)
LineTitle(lines, n) ==
    IF n = 0 THEN Untitled
    ELSE LET m == HeadingMatchAt(lines[n], 1, FALSE)
         IN  IF m # Null THEN m.text ELSE LineTitle(lines, n - 1)

\* The hunk is listed under the entry.
ListedUnder(h, entry) == \E j \in 1..Len(entry.hunks) : entry.hunks[j] = h

\* C24: a hunk with 1 <= new_start <= L, L the number of lines of the
\* document, is listed under the title of the section that holds line
\* new_start counted from 1, under that entry only, and is not dropped.
C24_OneBasedAttribution ==
    pc = "done" =>
        LET lines == Split(content, "\n")
        IN  \A i \in 1..Len(hunks) :
                (/\ ~IsInvalidHunk(hunks[i])
                 /\ hunks[i].new_start >= 1
                 /\ hunks[i].new_start <= Len(lines))
                => LET title == LineTitle(lines, hunks[i].new_start)
                   IN  \E k \in 1..Len(affected) :
                          /\ affected[k].section_title = title
                          /\ ListedUnder(hunks[i], affected[k])
                          /\ \A j \in 1..Len(affected) :
                                j # k => ~ListedUnder(hunks[i], affected[j])

\* C24 witness: the document # A, t, # B, t; the hunk at line 2, the last
\* line of A, goes to A and the hunk at line 3, the heading of B, to B.
C24_Witness ==
    /\ pc = "done"
    /\ content = Join(<<<<"#", " ", "A">>, <<"t">>, <<"#", " ", "B">>, <<"t">>>>, "\n")
    /\ Len(hunks) = 2
    /\ ~IsInvalidHunk(hunks[1]) /\ hunks[1].new_start = 2
    /\ ~IsInvalidHunk(hunks[2]) /\ hunks[2].new_start = 3
    /\ Len(affected) = 2
    /\ affected[1].section_title = <<"A">> /\ affected[1].hunks = <<hunks[1]>>
    /\ affected[2].section_title = <<"B">> /\ affected[2].hunks = <<hunks[2]>>

(***************************************************************************)
(* Claims about the plan of git-diff-sync.                                 *)
(***************************************************************************)
\* A plan with changes has been written.
ChangesPlanWritten == pc = "done" /\ plan # Null /\ plan.summary.has_changes

\* C25 as stated: in the plan written, every hunk listed under an affected
\* section carries a hunk_index, and it is the hunk_index of the same hunk
\* (same operation and description) in the list of changes.
C25_HunkIndexTraceable ==
    ChangesPlanWritten =>
        \A k \in 1..Len(plan.affected_sections) :
            \A j \in 1..Len(plan.affected_sections[k].hunks) :
                LET h == plan.affected_sections[k].hunks[j]
                IN  /\ h.hunk_index # Undefined
                    /\ \E c \in 1..Len(plan.changes) :
                          /\ plan.changes[c].hunk_index = h.hunk_index
                          /\ plan.changes[c].operation = h.operation
                          /\ plan.changes[c].description = h.description

\* C25 witness: one hunk in the section G: the change has hunk_index 0,
\* the hunk under the affected section has none.
C25_Witness ==
    /\ ChangesPlanWritten
    /\ Len(plan.changes) = 1 /\ plan.changes[1].hunk_index = 0
    /\ Len(plan.affected_sections) = 1
    /\ plan.affected_sections[1].section_title = <<"G">>
    /\ Len(plan.affected_sections[1].hunks) = 1
    /\ plan.affected_sections[1].hunks[1].hunk_index = Undefined

\* C28 as stated: in the plan written, summary.target_exists is true
\* exactly when the target file exists and can be read, an empty target
\* file included; and a source file that exists with empty content is not
\* reported as 'Source file not found'.
C28_EmptyFilesExist ==
    /\ ChangesPlanWritten =>
          (plan.summary.target_exists <=> repo.targetContent # NullString)
    /\ (pc = "done" /\ error = SourceFileNotFound(GitSourceFile)) =>
          repo.sourceContent = NullString

\* C28 witness: the target file exists and is empty, and the plan says
\* target_exists: false.
C28_Witness ==
    /\ ChangesPlanWritten
    /\ repo.targetContent = <<>>
    /\ plan.summary.target_exists = FALSE

\* The source file exists and is empty, and the run ends with 'Source file
\* not found' and no plan.
EmptySourceReportedMissing ==
    /\ pc = "done"
    /\ repo.sourceContent = <<>>
    /\ error = SourceFileNotFound(GitSourceFile)
    /\ plan = Null /\ exitCode = 1

(***************************************************************************)
(* Claims about which entry updatePlan finds.                              *)
(***************************************************************************)
\* The entries whose source is the given text exactly.
ExactEntries(files, sourceFile) ==
    {e \in 1..Len(files) : files[e].source = sourceFile}

\* The plan was made by sync-plan.js.
IsSyncPlan == plan # Null /\ "type" \in DOMAIN plan.meta

\* C26 as stated: when the plan has an entry whose source is the given
\* source file exactly, updatePlan updates that entry and no other,
\* whatever the other entries and their order.
C26_ExactMatchWins ==
    [][(calls' = calls + 1 /\ ExactEntries(plan.files, call'.sourceFile) # {}) =>
          \E e \in ExactEntries(plan.files, call'.sourceFile) :
              /\ outcome' = "updated"
              /\ OnlyStatusAndNotesChange(plan.files[e], plan'.files[e])
              /\ \A j \in 1..Len(plan.files) :
                    j # e => plan'.files[j] = plan.files[j]]_vars

\* C26 witness: a plan of create-plan.js for d/en/ad/en/b.md and
\* d/en/b.md; update-plan.js <plan> d/en/b.md in_progress has set the
\* first entry, whose source ends with d/en/b.md, and left the entry
\* d/en/b.md pending.
C26_Witness ==
    /\ IsCreatePlan
    /\ calls = 1 /\ outcome = "updated"
    /\ call.sourceFile = PathJoin(DirPairs_EnZh[1], FileB)
    /\ call.status = "in_progress"
    /\ Len(plan.files) = 2
    /\ plan.files[1].source = PathJoin(DirPairs_EnZh[1], FileNested)
    /\ plan.files[1].status = "in_progress"
    /\ plan.files[2].source = PathJoin(DirPairs_EnZh[1], FileB)
    /\ plan.files[2].status = "pending"
    /\ plan.log[1].file = plan.files[1].source

\* C27 as stated: on a plan of sync-plan.js, for a source file listed in
\* the plan, updatePlan completes and sets the status of its entry, also
\* when deleted entries (source null) stand before it.
C27_SyncPlanUpdatable ==
    [][(calls' = calls + 1 /\ IsSyncPlan
            /\ ExactEntries(plan.files, call'.sourceFile) # {}) =>
          /\ outcome' = "updated"
          /\ exitCode' = 0
          /\ \E e \in ExactEntries(plan.files, call'.sourceFile) :
                plan'.files[e].status = call'.status]_vars

\* C27 witness: a plan of sync-plan.js whose first entry is the deleted
\* a.md (source null) and whose second is d/en/b.md; update-plan.js <plan>
\* d/en/b.md in_progress has thrown the TypeError and changed nothing.
C27_Witness ==
    /\ IsSyncPlan
    /\ calls = 1 /\ outcome = "TypeError"
    /\ call.sourceFile = PathJoin(DirPairs_EnZh[1], FileB)
    /\ call.status = "in_progress"
    /\ Len(plan.files) = 2
    /\ plan.files[1].source = NullString
    /\ plan.files[2].source = call.sourceFile
    /\ plan.files[2].status # "in_progress"
    /\ plan.log = <<>>

\* No entry of the plan has a source that is or ends with the text; an
\* entry without source (null) does not.
NoEntryMatches(files, sourceFile) ==
    \A k \in 1..Len(files) :
        files[k].source = NullString \/ ~MatchesSource(files[k], sourceFile)

HasNullSource(files) == \E k \in 1..Len(files) : files[k].source = NullString

HeadingSections(secs) == SelectSeq(secs, LAMBDA sec : sec.level >= 1)

\* C29 as stated: for every document the headings of extractStructure are
\* the heading lines parseMarkdownSections recognises, in number, level
\* and text, also when the document has a line made of # characters only,
\* followed by a newline.
C29_SameHeadings ==
    pc = "done" =>
        LET headings == extractStructure(content).headings
            heads == HeadingSections(sections)
        IN  /\ Len(headings) = Len(heads)
            /\ \A k \in 1..Len(headings) :
                  /\ Len(headings[k][1]) = heads[k].level
                  /\ headings[k][2] = heads[k].title

\* C29 witness: the document is the line # and the line t:
\* extractStructure has the heading t of level 1, parseMarkdownSections
\* has one untitled section and no heading.
C29_Witness ==
    /\ pc = "done"
    /\ content = <<"#", "\n", "t">>
    /\ extractStructure(content).headings = << <<<<"#">>, <<"t">>>> >>
    /\ Len(sections) = 1 /\ sections[1].level = 0
    /\ HeadingSections(sections) = <<>>

====
